---------------------------- MODULE Spec2Model ----------------------------
(***************************************************************************)
(* A model of the Jarvis command-line engines (Go):                        *)
(*   - the diff engine     (computeDiff, applyReplace)                     *)
(*   - the file indexer    (indexDirectory: walk, worker pool, collect)    *)
(*   - the text searcher   (search: walk, worker pool, capped gather)      *)
(*   - the symbol resolver (resolve: walk, worker pool, def/ref merge)     *)
(* Each engine is a single-shot process; one specification per engine      *)
(* draws the invocation's inputs in its initial state and runs the engine. *)
(* Text is modelled as sequences of one-character strings, so that the     *)
(* string functions of the Go library are computed, not assumed.           *)
(***************************************************************************)
EXTENDS Integers, Sequences, FiniteSets, TLC

VARIABLES
    (* ---- diff engine, apply / preview mode (applyReplace) ---- *)
    rpc,          \* "start" before the call, "done" after the document is written
    mode,         \* the -mode flag: "apply" or "preview"
    fsFile,       \* content of the target file on disk, or NoFile
    fsFile0,      \* history: the content of the target file before the call
    oldText,      \* the -old-text flag
    newText,      \* the -new-text flag
    writeFault,   \* what os.WriteFile does if it is called: "none", "denied", "truncated"
    writes,       \* history: the number of os.WriteFile calls on the target
    stdout        \* the documents written to standard output so far

VARIABLES
    (* ---- scanning engines: indexer, searcher, analyzer, resolver ---- *)
    engine,        \* which engine runs: "indexer", "searcher", "analyzer", "resolver"
    flags,         \* the invocation's flags, a record
    tree,          \* the file tree: node -> [name, size, readable, content]
    numWorkers,    \* runtime.NumCPU()
    pc,            \* main goroutine: "walk", "start", "send", "collect", "done"
    files,         \* the jobs the walk collected, in walk order
    nextJob,       \* index in files of the next job main sends
    jobChan,       \* the buffered job channel
    jobsClosed,    \* close(jobChan) has run
    resultChan,    \* the buffered results channel
    resultsClosed, \* close(resultChan) has run
    wpc,           \* worker -> "unborn", "recv", "work", "exited"
    wjob,          \* worker -> the job it holds (0: none)
    wg,            \* the WaitGroup counter
    closer,        \* the goroutine that waits and closes: "unborn", "waiting", "done"
    result,        \* the engine's result record
    hist           \* history: per job, how often it was dequeued, processed, received

scanVars == <<engine, flags, tree, numWorkers, pc, files, nextJob, jobChan, jobsClosed,
              resultChan, resultsClosed, wpc, wjob, wg, closer, result, hist>>

VARIABLES
    (* ---- diff engine, diff mode (generateDiff, computeDiff) ---- *)
    dpc,          \* where computeDiff is: "outer", "hunk", "close", "patch", "done"
    oldLines,     \* the lines of the old file
    newLines,     \* the lines of the new file
    ctx,          \* the -context flag
    curI,         \* computeDiff's i: lines of old consumed (0-based cursor)
    curJ,         \* computeDiff's j: lines of new consumed (0-based cursor)
    start,        \* computeDiff's start: 0-based old index where the open hunk begins
    lines,        \* the tagged lines of the open hunk
    hunks,        \* the hunks closed so far
    startJ,       \* history: 0-based new index where the open hunk begins
    hunkNewPos,   \* history: startJ of each closed hunk
    patch         \* the rendered unified patch (a sequence of lines), once generated

diffVars == <<dpc, oldLines, newLines, ctx, curI, curJ, start, lines, hunks,
              startJ, hunkNewPos, patch>>

replaceVars == <<rpc, mode, fsFile, fsFile0, oldText, newText, writeFault, writes, stdout>>

VARIABLES
    (* ---- change watcher (collectState, compareSnapshot, watchFor) ---- *)
    tpc,          \* "start", "wait" (a reference snapshot is held), "done", or "idle"
    sinceMode,    \* TRUE: -since (compareSnapshot); FALSE: -duration (watchFor)
    zoneZero,     \* the local time zone's offset from UTC is zero
    state,        \* the reference snapshot: path -> FileState
    newState,     \* the snapshot collected last
    events        \* what compareStates returned last

watchVars == <<tpc, sinceMode, zoneZero, state, newState, events>>

VARIABLES
    (* ---- parallel runner (runTasks, runTask) ---- *)
    runPc,        \* main of runTasks: "start", "send", "wait", "done", or "idle"
    tasks,        \* the tasks, each with what its subprocess will do
    workersGiven, \* the worker count runTasks is called with
    maxWorkers,   \* the worker count, after the default is applied
    runNext,      \* the index main sends next
    runJobs,      \* the buffered channel of task indices
    runJobsClosed,\* close(jobs) has run
    runWpc,       \* worker -> "unborn", "recv", "run", "lock", "write", "exited"
    runIdx,       \* worker -> the index it holds (0: none)
    taskResult,   \* worker -> the TaskResult it holds
    mu,           \* the mutex: 0 when free, else the worker that holds it
    runWg,        \* the WaitGroup counter
    runResult,    \* the RunnerResult
    slotWrites    \* history: per task, how often its Results slot was written

runVars == <<runPc, tasks, workersGiven, maxWorkers, runNext, runJobs, runJobsClosed, runWpc, runIdx,
             taskResult, mu, runWg, runResult, slotWrites>>

VARIABLES
    (* ---- diff engine, main: the dispatch on the -mode flag ---- *)
    cliPc,        \* "start" before main runs, "done" after it returned, or "idle"
    cliArgs,      \* the flags of the invocation and what the named files are
    cliFile,      \* the content of the -target file on disk
    cliOut        \* the documents main wrote to standard output

cliVars == <<cliPc, cliArgs, cliFile, cliOut>>

VARIABLES
    (* ---- code analyzer, the forward pass of analyzeFile over one file ---- *)
    apc,          \* "scan" while lines remain, "done" after the loop, or "idle"
    aLang,        \* analysis.Language
    aFilter,      \* symbolTypeFilter
    aLines,       \* the lines of the file
    scan,         \* the loop's variables and the analysis so far, a record
    aReadable,    \* os.Open(path) succeeds
    analysis      \* analysis.Error and analysis.LineCount

fileVars == <<apc, aLang, aFilter, aLines, scan, aReadable, analysis>>

VARIABLES
    (* ---- change watcher, live mode (watchFor, watchContinuous) ---- *)
    lpc,          \* "start", "check", "sleep", "tick", "select", "done", or "idle"
    duration,     \* the -duration flag: seconds; 0 selects watchContinuous
    clock,        \* time.Now(), in seconds
    end,          \* watchFor's deadline
    liveState,    \* the loop's reference snapshot (the local variable state)
    allEvents,    \* watchFor's accumulated events
    liveResult,   \* the WatchResult watchFor returned
    sig,          \* the signal channel holds a signal
    emitted,      \* the events watchContinuous encoded to standard output
    ticks,        \* history: the ticks of the loop so far
    snapshots     \* history: every snapshot the loop collected, in order

liveVars == <<lpc, duration, clock, end, liveState, allEvents, liveResult, sig,
              emitted, ticks, snapshots>>

VARIABLES
    (* ---- version-control wrapper (git-analyzer main) ---- *)
    gpc,          \* "start", "encode" (the result is built), "done", or "idle"
    gitArgs,      \* the flags of the invocation
    gitRun,       \* what runGit returns when it is called: a record
    gitResult,    \* main's variable result
    gitOut        \* the documents written to standard output

gitVars == <<gpc, gitArgs, gitRun, gitResult, gitOut>>

vars == <<scanVars, diffVars, replaceVars, watchVars, runVars, cliVars, fileVars,
          liveVars, gitVars>>

\* what each engine leaves alone: the variables of the other engines
notScanVars == <<diffVars, replaceVars, watchVars, runVars, cliVars, fileVars, liveVars, gitVars>>
notDiffVars == <<scanVars, replaceVars, watchVars, runVars, cliVars, fileVars, liveVars, gitVars>>
notReplaceVars == <<scanVars, diffVars, watchVars, runVars, cliVars, fileVars, liveVars, gitVars>>
notRunVars == <<scanVars, diffVars, replaceVars, watchVars, cliVars, fileVars, liveVars, gitVars>>
notWatchVars == <<scanVars, diffVars, replaceVars, runVars, cliVars, fileVars, liveVars, gitVars>>
notCliVars == <<scanVars, diffVars, replaceVars, watchVars, runVars, fileVars, liveVars, gitVars>>
notFileVars == <<scanVars, diffVars, replaceVars, watchVars, runVars, cliVars, liveVars, gitVars>>
notGitVars == <<scanVars, diffVars, replaceVars, watchVars, runVars, cliVars, fileVars, liveVars>>
\* a live watcher reads the tree of scanVars
notLiveVars == <<diffVars, replaceVars, watchVars, runVars, cliVars, fileVars, gitVars>>

-----------------------------------------------------------------------------
(* Bounds of the model. *)

\* longest target file content, in characters
MaxFileLen == 4
\* longest -old-text, in characters
MaxOldLen == 2
\* most lines in either file given to computeDiff
MaxLines == 5
\* largest -context value
MaxCtx == 1
\* largest worker count (runtime.NumCPU())
MaxWorkers == 2

-----------------------------------------------------------------------------
(* Text: strings are sequences of characters. *)

Min(a, b) == IF a < b THEN a ELSE b

\* max of the diff engine (lines 214-219)
Max(a, b) == IF a > b THEN a ELSE b

\* all sequences over S of length lo..hi
SeqsOf(S, lo, hi) == UNION {[1..n -> S] : n \in lo..hi}

\* t occurs in s starting at the 1-based position k
OccursAt(s, t, k) ==
    /\ k >= 1
    /\ k + Len(t) - 1 <= Len(s)
    /\ SubSeq(s, k, k + Len(t) - 1) = t

\* every start position of t in s, overlapping occurrences included
StartPositions(s, t) == {k \in 1..(Len(s) + 1) : OccursAt(s, t, k)}

\* strings.Index, 1-based; 0 when t does not occur in s
Index(s, t) ==
    IF StartPositions(s, t) = {} THEN 0
    ELSE CHOOSE k \in StartPositions(s, t) : \A m \in StartPositions(s, t) : k <= m

\* strings.Contains
Contains(s, t) == Index(s, t) # 0

\* strings.HasPrefix
HasPrefix(s, t) == OccursAt(s, t, 1)

\* strings.Count: the number of NON-overlapping occurrences of t in s, found
\* greedily from the left; Len(s) + 1 for the empty t
RECURSIVE CountFrom(_, _, _)
CountFrom(s, t, from) ==
    LET rest == SubSeq(s, from, Len(s))
        k    == Index(rest, t)
    IN  IF k = 0 THEN 0 ELSE 1 + CountFrom(s, t, from + k - 1 + Len(t))

Count(s, t) == IF t = <<>> THEN Len(s) + 1 ELSE CountFrom(s, t, 1)

\* strings.Replace(s, old, new, 1): the first occurrence of old replaced
ReplaceFirst(s, old, new) ==
    LET k == Index(s, old)
    IN  IF k = 0 THEN s
        ELSE SubSeq(s, 1, k - 1) \o new \o SubSeq(s, k + Len(old), Len(s))

-----------------------------------------------------------------------------
(* Names and paths. A name is a string (a sequence of characters); a path  *)
(* is the sequence of its elements, "/srv/x" being <<"", "srv", "x">>.     *)

\* the characters of the model in byte order (for sorting directory entries)
CharOrder == <<" ", "(", "*", ",", ".", "A", "P", "Y", "_", "a", "b", "c", "d", "e",
               "f", "g", "i", "j", "l", "m", "n", "o", "p", "r", "s", "t", "u", "v",
               "x", "y">>

CharRank(c) == CHOOSE k \in 1..Len(CharOrder) : CharOrder[k] = c

\* byte-wise string order
RECURSIVE NameLess(_, _)
NameLess(a, b) ==
    IF b = <<>> THEN FALSE
    ELSE IF a = <<>> THEN TRUE
    ELSE IF Head(a) = Head(b) THEN NameLess(Tail(a), Tail(b))
    ELSE CharRank(Head(a)) < CharRank(Head(b))

\* strings.ToLower on the characters of the model
LowerChar(c) ==
    CASE c = "A" -> "a" [] c = "P" -> "p" [] c = "Y" -> "y" [] OTHER -> c

ToLower(s) == [k \in 1..Len(s) |-> LowerChar(s[k])]

\* strings.TrimSpace
RECURSIVE TrimLeft(_)
TrimLeft(s) == IF s # <<>> /\ Head(s) = " " THEN TrimLeft(Tail(s)) ELSE s

RECURSIVE TrimRight(_)
TrimRight(s) ==
    IF s # <<>> /\ s[Len(s)] = " " THEN TrimRight(SubSeq(s, 1, Len(s) - 1)) ELSE s

TrimSpace(s) == TrimRight(TrimLeft(s))

\* strings.Split(s, ","): the parts between the commas, at least one part
RECURSIVE SplitComma(_)
SplitComma(s) ==
    LET k == Index(s, <<",">>)
    IN  IF k = 0 THEN <<s>>
        ELSE <<SubSeq(s, 1, k - 1)>> \o SplitComma(SubSeq(s, k + 1, Len(s)))

\* filepath.Ext: the suffix of the last element from its last dot on, or ""
ExtOfName(n) ==
    LET dots == {k \in 1..Len(n) : n[k] = "."}
    IN  IF dots = {} THEN <<>>
        ELSE SubSeq(n, CHOOSE k \in dots : \A m \in dots : m <= k, Len(n))

Base(path) == path[Len(path)]

Ext(path) == ExtOfName(Base(path))

Dot == <<".">>

\* filepath.Join(path, name), cleaned: "." joined with a name is the name
Join(path, n) == IF path = <<Dot>> THEN <<n>> ELSE Append(path, n)

\* strings.Count(filepath.Clean(path), "/"): the separators of a path
Separators(path) == Len(path) - 1

\* filepath.Match for patterns of literal characters, "?" and "*"
RECURSIVE Match(_, _)
Match(pat, n) ==
    IF pat = <<>> THEN n = <<>>
    ELSE IF Head(pat) = "*" THEN
        \E k \in 0..Len(n) : Match(Tail(pat), SubSeq(n, k + 1, Len(n)))
    ELSE /\ n # <<>>
         /\ Head(pat) = "?" \/ Head(pat) = Head(n)
         /\ Match(Tail(pat), Tail(n))

ExtPy == <<".", "p", "y">>
ExtGo == <<".", "g", "o">>
ExtJs == <<".", "j", "s">>
ExtJsx == <<".", "j", "s", "x">>
ExtMjs == <<".", "m", "j", "s">>
ExtTs == <<".", "t", "s">>
ExtTsx == <<".", "t", "s", "x">>
ExtTxt == <<".", "t", "x", "t">>
ExtBin == <<".", "b", "i", "n">>

NodeModules == <<"n", "o", "d", "e", "_", "m", "o", "d", "u", "l", "e", "s">>
PyCache == <<"_", "_", "p", "y", "c", "a", "c", "h", "e", "_", "_">>
Vendor == <<"v", "e", "n", "d", "o", "r">>
Target == <<"t", "a", "r", "g", "e", "t">>

-----------------------------------------------------------------------------
(* The file tree and filepath.Walk.                                        *)

\* the shape of the tree: node 1 is the root directory given on the command
\* line; a tree holds a subset of the nodes, closed under Parent
Nodes == 1..7
Root == 1
Parent == <<0, 1, 1, 1, 4, 4, 6>>
DirNodes == {1, 4, 6}

IsDir(n) == n \in DirNodes

\* info.Name(): the root's is the last element of the path it was given by
NameOf(n) == IF n = Root THEN Base(flags.dir) ELSE tree[n].name

RECURSIVE SortNodes(_)
SortNodes(S) ==
    IF S = {} THEN <<>>
    ELSE LET first == CHOOSE n \in S :
                          \A m \in S \ {n} : NameLess(tree[n].name, tree[m].name)
         IN  <<first>> \o SortNodes(S \ {first})

\* the entries of a directory in the order readDirNames returns them
Children(n) == SortNodes({c \in DOMAIN tree : Parent[c] = n})

\* depth of a path below the root, as both depth checks compute it
Depth(path) == Separators(path) - Separators(flags.dir)

\* the extension filter of the indexer and the analyzer (lower-cased) and of
\* the resolver (as given)
ExtFilterOf(extensions, lower) ==
    {LET e == TrimSpace(SplitComma(extensions)[k])
         d == IF HasPrefix(e, Dot) THEN e ELSE Dot \o e
     IN  IF lower THEN ToLower(d) ELSE d : k \in 1..Len(SplitComma(extensions))}

ExcludeMapOf(excludeDirs) ==
    {TrimSpace(SplitComma(excludeDirs)[k]) : k \in 1..Len(SplitComma(excludeDirs))}

\* getLanguage of the analyzer
getLanguage(path) ==
    LET e == ToLower(Ext(path))
    IN  CASE e = ExtPy -> "python"
          [] e = ExtGo -> "go"
          [] e \in {ExtJs, ExtJsx, ExtMjs} -> "javascript"
          [] e \in {ExtTs, ExtTsx} -> "typescript"
          [] OTHER -> ""

\* getLang of the resolver
getLang(path) ==
    LET e == ToLower(Ext(path))
    IN  CASE e = ExtPy -> "python"
          [] e = ExtGo -> "go"
          [] e \in {ExtJs, ExtJsx, ExtTs, ExtTsx} -> "javascript"
          [] OTHER -> ""

\* the searcher's denylist of binary extensions (those the model's files can have)
binaryExts == {ExtBin}

\* the indexer's walk function: "SkipDir", "nil" (nothing collected) or "job"
IndexVisit(path, n) ==
    IF flags.maxDepth >= 0 /\ Depth(path) > flags.maxDepth THEN
        IF IsDir(n) THEN "SkipDir" ELSE "nil"
    ELSE IF IsDir(n) THEN
        IF NameOf(n) # Dot /\ (NameOf(n) \in ExcludeMapOf(flags.excludeDirs)
                               \/ HasPrefix(NameOf(n), Dot))
        THEN "SkipDir" ELSE "nil"
    ELSE IF flags.extensions # <<>>
            /\ ToLower(Ext(path)) \notin ExtFilterOf(flags.extensions, TRUE)
        THEN "nil"
    ELSE "job"

\* the searcher's walk function
SearchVisit(path, n) ==
    IF IsDir(n) THEN
        IF NameOf(n) # Dot /\ (HasPrefix(NameOf(n), Dot)
                               \/ NameOf(n) \in {NodeModules, PyCache, Vendor, Target})
        THEN "SkipDir" ELSE "nil"
    ELSE IF flags.filePattern # <<>> /\ ~Match(flags.filePattern, NameOf(n)) THEN "nil"
    ELSE IF ToLower(Ext(path)) \in binaryExts THEN "nil"
    ELSE "job"

\* the analyzer's walk function
AnalyzeVisit(path, n) ==
    IF IsDir(n) THEN
        IF NameOf(n) # Dot /\ (HasPrefix(NameOf(n), Dot)
                               \/ NameOf(n) \in {NodeModules, PyCache, Vendor})
        THEN "SkipDir"
        ELSE IF flags.maxDepth >= 0 /\ Depth(path) > flags.maxDepth THEN "SkipDir"
        ELSE "nil"
    ELSE IF flags.extensions # <<>>
            /\ ToLower(Ext(path)) \notin ExtFilterOf(flags.extensions, TRUE)
        THEN "nil"
    ELSE IF getLanguage(path) # "" THEN "job"
    ELSE "nil"

\* the resolver's walk function
ResolveVisit(path, n) ==
    IF IsDir(n) THEN
        IF NameOf(n) # Dot /\ (HasPrefix(NameOf(n), Dot)
                               \/ NameOf(n) \in {NodeModules, PyCache})
        THEN "SkipDir" ELSE "nil"
    ELSE IF flags.extensions # <<>>
            /\ ToLower(Ext(path)) \notin ExtFilterOf(flags.extensions, FALSE)
        THEN "nil"
    ELSE IF getLang(path) # "" THEN "job"
    ELSE "nil"

\* the watcher's walk function (collectState)
WatchVisit(path, n) ==
    IF IsDir(n) THEN
        IF NameOf(n) # Dot /\ (NameOf(n) \in ExcludeMapOf(flags.excludeDirs)
                               \/ HasPrefix(NameOf(n), Dot))
        THEN "SkipDir" ELSE "nil"
    ELSE IF flags.extensions # <<>>
            /\ ToLower(Ext(path)) \notin ExtFilterOf(flags.extensions, FALSE)
        THEN "nil"
    ELSE "job"

Visit(path, n) ==
    CASE engine = "indexer" -> IndexVisit(path, n)
      [] engine = "watcher" -> WatchVisit(path, n)
      [] engine = "searcher" -> SearchVisit(path, n)
      [] engine = "analyzer" -> AnalyzeVisit(path, n)
      [] engine = "resolver" -> ResolveVisit(path, n)

\* a job: the path the walk built, and the file it names
Job(path, n) == [Path |-> path, node |-> n]

\* filepath.Walk: the walk function on the entry, then, for a directory not
\* skipped, its entries in name order
RECURSIVE WalkNode(_, _), WalkEntries(_, _)
WalkNode(path, n) ==
    IF ~IsDir(n) THEN (IF Visit(path, n) = "job" THEN <<Job(path, n)>> ELSE <<>>)
    ELSE IF Visit(path, n) = "SkipDir" THEN <<>>
    ELSE WalkEntries(path, Children(n))

WalkEntries(path, kids) ==
    IF kids = <<>> THEN <<>>
    ELSE WalkNode(Join(path, tree[Head(kids)].name), Head(kids))
         \o WalkEntries(path, Tail(kids))

Walk == WalkNode(flags.dir, Root)

-----------------------------------------------------------------------------
(* What a worker does with one job.                                        *)

TenMiB == 10485760

\* hashFile: the digest of the content, as a token
hashFile(n) == <<"md5", n, tree[n].content>>

\* processFile of the indexer
processFile(job, withHash) ==
    [Path |-> job.Path, Name |-> NameOf(job.node), Size |-> tree[job.node].size,
     Extension |-> Ext(job.Path), IsDir |-> IsDir(job.node),
     Hash |-> IF withHash /\ ~IsDir(job.node) /\ tree[job.node].size < TenMiB
                 /\ tree[job.node].readable
              THEN hashFile(job.node) ELSE <<>>]

\* whether a line matches the pattern: a substring test, on lower-cased text
\* when case is ignored (a regular expression without metacharacters matches
\* as the literal does)
Found(line) ==
    IF flags.ignoreCase
    THEN Contains(ToLower(line), ToLower(flags.pattern))
    ELSE Contains(line, flags.pattern)

\* a mutant of searchFile of the searcher: the first line is not scanned
SearchFileSkipsFirst(job) ==
    IF ~tree[job.node].readable THEN <<>>
    ELSE LET ls   == tree[job.node].content
             hits == {k \in 2..Len(ls) : Found(ls[k])}
         IN  [h \in 1..Cardinality(hits) |->
                 LET k == CHOOSE x \in hits : Cardinality({y \in hits : y < x}) = h - 1
                 IN  [File |-> job.Path, Line |-> k, Content |-> ls[k]]]

\* searchFile of the searcher: the matching lines of a file, in line order
SearchFile(job) ==
    IF ~tree[job.node].readable THEN <<>>
    ELSE LET ls   == tree[job.node].content
             hits == {k \in 1..Len(ls) : Found(ls[k])}
         IN  [h \in 1..Cardinality(hits) |->
                 LET k == CHOOSE x \in hits : Cardinality({y \in hits : y < x}) = h - 1
                 IN  [File |-> job.Path, Line |-> k, Content |-> ls[k]]]

\* analyzeFile, as far as the pool is concerned: one analysis per path
analyzeFile(job) ==
    [Path |-> job.Path, Language |-> getLanguage(job.Path),
     Error |-> IF tree[job.node].readable THEN <<>> ELSE <<"open error">>]

(* The resolver's definition patterns, as scanners over the characters of  *)
(* a line. A scanner returns the rest of the line, or Fail.                *)

Fail == <<"\n">>

WordChars == {"a", "b", "c", "d", "e", "f", "g", "i", "j", "l", "m", "n", "o", "p",
              "r", "s", "t", "u", "v", "x", "y", "A", "P", "Y", "_"}
SpaceChars == {" "}

\* \s*
RECURSIVE SkipSpaces(_)
SkipSpaces(s) == IF s # <<>> /\ Head(s) \in SpaceChars THEN SkipSpaces(Tail(s)) ELSE s

\* \s+
Spaces1(s) ==
    IF s # Fail /\ s # <<>> /\ Head(s) \in SpaceChars THEN SkipSpaces(s) ELSE Fail

\* a literal
Lit(s, w) == IF s # Fail /\ HasPrefix(s, w) THEN SubSeq(s, Len(w) + 1, Len(s)) ELSE Fail

\* the length of the longest prefix of word characters
RECURSIVE WordLen(_)
WordLen(s) == IF s # <<>> /\ Head(s) \in WordChars THEN 1 + WordLen(Tail(s)) ELSE 0

\* (\w+) at the start of s is exactly name; the rest after it, or Fail
Capture(s, name) ==
    IF s # Fail /\ WordLen(s) = Len(name) /\ HasPrefix(s, name)
    THEN SubSeq(s, Len(name) + 1, Len(s)) ELSE Fail

\* \([^)]+\)
Receiver(s) ==
    IF s = Fail \/ ~HasPrefix(s, <<"(">>) THEN Fail
    ELSE LET k == Index(s, <<")">>)
         IN  IF k >= 3 THEN SubSeq(s, k + 1, Len(s)) ELSE Fail

KwDef == <<"d", "e", "f">>
KwClass == <<"c", "l", "a", "s", "s">>
KwFunc == <<"f", "u", "n", "c">>
KwType == <<"t", "y", "p", "e">>
KwFunction == <<"f", "u", "n", "c", "t", "i", "o", "n">>
KwConst == <<"c", "o", "n", "s", "t">>
KwLet == <<"l", "e", "t">>
KwVar == <<"v", "a", "r">>

\* defPatterns: some pattern of the language matches the line with the
\* captured identifier equal to name
IsDefLine(lang, line, name) ==
    CASE lang = "python" ->
            \/ Capture(Spaces1(Lit(SkipSpaces(line), KwDef)), name) # Fail
            \/ Capture(Spaces1(Lit(SkipSpaces(line), KwClass)), name) # Fail
      [] lang = "go" ->
            \/ LET r == Capture(Spaces1(Lit(line, KwFunc)), name)
               IN  r # Fail /\ HasPrefix(SkipSpaces(r), <<"(">>)
            \/ LET r == Capture(Spaces1(Receiver(Spaces1(Lit(line, KwFunc)))), name)
               IN  r # Fail /\ HasPrefix(SkipSpaces(r), <<"(">>)
            \/ Capture(Spaces1(Lit(line, KwType)), name) # Fail
      [] lang = "javascript" ->
            \/ Capture(Spaces1(Lit(line, KwFunction)), name) # Fail
            \/ Capture(Spaces1(Lit(line, KwClass)), name) # Fail
            \/ \E kw \in {KwConst, KwLet, KwVar} :
                   LET r == Capture(Spaces1(Lit(line, kw)), name)
                   IN  r # Fail /\ HasPrefix(SkipSpaces(r), <<"=">>)
      [] OTHER -> FALSE

\* \bname\b matches somewhere in the line (name is made of word characters)
IsRefLine(line, name) ==
    \E k \in StartPositions(line, name) :
        /\ k = 1 \/ line[k - 1] \notin WordChars
        /\ k + Len(name) > Len(line) \/ line[k + Len(name)] \notin WordChars

\* a mutant of Location: lines are numbered from 0
LocationFromZero(path, lineNum, line, name) ==
    [File |-> path, Line |-> lineNum - 1, Column |-> Index(line, name),
     Text |-> TrimSpace(line)]

Location(path, lineNum, line, name) ==
    [File |-> path, Line |-> lineNum, Column |-> Index(line, name), Text |-> TrimSpace(line)]

\* a mutant of LineMatches: a definition line is reported as a reference too
LineMatchesBoth(path, lineNum, line, name) ==
    (IF IsDefLine(getLang(path), line, name)
     THEN <<[loc |-> Location(path, lineNum, line, name), isDef |-> TRUE]>> ELSE <<>>)
    \o (IF IsRefLine(line, name)
        THEN <<[loc |-> Location(path, lineNum, line, name), isDef |-> FALSE]>> ELSE <<>>)

\* lines 199-223 of the resolver's searchFile: the match of one line, if any
LineMatches(path, lineNum, line, name) ==
    IF IsDefLine(getLang(path), line, name)
    THEN <<[loc |-> Location(path, lineNum, line, name), isDef |-> TRUE]>>
    ELSE IF IsRefLine(line, name)
    THEN <<[loc |-> Location(path, lineNum, line, name), isDef |-> FALSE]>>
    ELSE <<>>

\* a mutant of ScanLines: the matches are listed from the last line to the first
RECURSIVE ScanLinesReversed(_, _, _, _)
ScanLinesReversed(path, ls, lineNum, name) ==
    IF lineNum > Len(ls) THEN <<>>
    ELSE ScanLinesReversed(path, ls, lineNum + 1, name)
         \o LineMatches(path, lineNum, ls[lineNum], name)

RECURSIVE ScanLines(_, _, _, _)
ScanLines(path, ls, lineNum, name) ==
    IF lineNum > Len(ls) THEN <<>>
    ELSE LineMatches(path, lineNum, ls[lineNum], name)
         \o ScanLines(path, ls, lineNum + 1, name)

\* searchFile of the resolver
ResolveSearchFile(job, name) ==
    IF ~tree[job.node].readable THEN <<>>
    ELSE ScanLines(job.Path, tree[job.node].content, 1, name)

\* the loop body of a worker: the result it sends for a job
Process(job) ==
    CASE engine = "indexer" -> processFile(job, flags.withHash)
      [] engine = "searcher" -> SearchFile(job)
      [] engine = "analyzer" -> analyzeFile(job)
      [] engine = "resolver" -> ResolveSearchFile(job, flags.symbol)

-----------------------------------------------------------------------------
(* The run of a scanning engine: walk, worker pool, aggregation.           *)

Workers == 1..numWorkers

\* regexp.Compile fails on the pattern (of the model's patterns, "(" alone)
InvalidRegex(pattern) == pattern = <<"(">>

\* the capacity of both channels: make(chan ..., len(files))
Cap == Len(files)

\* a results channel with room for one value only
ResultsCapOne == Min(1, Len(files))

\* the capacity of the results channel
ResultsCap == Cap

\* the first n elements of a sequence
Take(q, n) == SubSeq(q, 1, Min(Len(q), Max(n, 0)))

\* a mutant of WaitDone: the results channel is closed without waiting
WaitDoneAtOnce(counter) == TRUE

\* wg.Wait() returns
WaitDone(counter) == counter = 0

\* the result record an engine starts from
EmptyResult ==
    CASE engine = "indexer" ->
            [Files |-> <<>>, TotalFiles |-> 0, TotalSize |-> 0, Error |-> <<>>]
      [] engine = "searcher" -> [Matches |-> <<>>, Count |-> 0, Error |-> <<>>]
      [] engine = "analyzer" -> [Files |-> <<>>, TotalFiles |-> 0, Error |-> <<>>]
      [] engine = "resolver" ->
            [Symbols |-> <<>>, TotalRefs |-> 0, FilesCount |-> 0, Error |-> <<>>,
             sym |-> [Name |-> flags.symbol, Definition |-> <<>>, References |-> <<>>]]

\* a mutant of GatherMatches: the cap is tested after the append
GatherMatchesLate(matches, batch, maxResults) ==
    matches \o Take(batch, maxResults - Len(matches) + 1)

\* lines 382-387 of the searcher: the matches of one batch appended up to the cap
GatherMatches(matches, batch, maxResults) ==
    matches \o Take(batch, maxResults - Len(matches))

\* a mutant of MergeMatches: a definition found after the first is dropped
RECURSIVE MergeMatchesDropsDefs(_, _)
MergeMatchesDropsDefs(sym, matches) ==
    IF matches = <<>> THEN sym
    ELSE LET m == Head(matches)
         IN  MergeMatchesDropsDefs(
                 IF m.isDef /\ sym.Definition = <<>>
                 THEN [sym EXCEPT !.Definition = <<m.loc>>]
                 ELSE IF m.isDef THEN sym
                 ELSE [sym EXCEPT !.References = Append(@, m.loc)],
                 Tail(matches))

\* lines 146-153 of the resolver: the matches of one file merged into sym.
\* Definition is the optional pointer: <<>> for nil, <<loc>> when set.
RECURSIVE MergeMatches(_, _)
MergeMatches(sym, matches) ==
    IF matches = <<>> THEN sym
    ELSE LET m == Head(matches)
         IN  MergeMatches(
                 IF m.isDef /\ sym.Definition = <<>>
                 THEN [sym EXCEPT !.Definition = <<m.loc>>]
                 ELSE [sym EXCEPT !.References = Append(@, m.loc)],
                 Tail(matches))

\* a mutant of Aggregate: the indexer and the analyzer keep the latest
\* value only (the list is not appended to)
AggregateKeepsLatest(res, val) ==
    CASE engine = "indexer" ->
            [res EXCEPT !.Files = <<val>>, !.TotalSize = @ + val.Size]
      [] engine = "searcher" ->
            [res EXCEPT !.Matches = GatherMatches(@, val, flags.maxResults)]
      [] engine = "analyzer" -> [res EXCEPT !.Files = <<val>>]
      [] engine = "resolver" -> [res EXCEPT !.sym = MergeMatches(@, val)]

\* the body of the aggregating loop for one received value
Aggregate(res, val) ==
    CASE engine = "indexer" ->
            [res EXCEPT !.Files = Append(@, val), !.TotalSize = @ + val.Size]
      [] engine = "searcher" ->
            [res EXCEPT !.Matches = GatherMatches(@, val, flags.maxResults)]
      [] engine = "analyzer" -> [res EXCEPT !.Files = Append(@, val)]
      [] engine = "resolver" -> [res EXCEPT !.sym = MergeMatches(@, val)]

\* what follows the aggregating loop
Finish(res) ==
    CASE engine = "indexer" -> [res EXCEPT !.TotalFiles = Len(res.Files)]
      [] engine = "searcher" -> [res EXCEPT !.Count = Len(res.Matches)]
      [] engine = "analyzer" -> [res EXCEPT !.TotalFiles = Len(res.Files)]
      [] engine = "resolver" ->
            [res EXCEPT !.TotalRefs = Len(res.sym.References), !.Symbols = <<res.sym>>]

\* the searcher leaves its loop after the first batch that holds a match
CapReachedOnFirstMatch(res) == engine = "searcher" /\ Len(res.Matches) >= 1

\* the searcher leaves its loop as soon as the cap is reached (lines 388-390)
CapReached(res) == engine = "searcher" /\ Len(res.Matches) >= flags.maxResults

\* the part of the initial state that is the same for every engine
PoolAtStart ==
    /\ numWorkers \in 1..MaxWorkers
    /\ pc = "walk"
    /\ files = <<>> /\ nextJob = 1
    /\ jobChan = <<>> /\ jobsClosed = FALSE
    /\ resultChan = <<>> /\ resultsClosed = FALSE
    /\ wpc = [w \in Workers |-> "unborn"]
    /\ wjob = [w \in Workers |-> 0]
    /\ wg = 0
    /\ closer = "unborn"
    /\ result = EmptyResult
    /\ hist = [deq |-> <<>>, proc |-> <<>>, recv |-> <<>>]

\* the pattern is compiled (searcher; an invalid regular expression ends the
\* run with an error), then the tree is walked and the jobs are collected
MainWalk ==
    /\ pc = "walk"
    /\ IF engine = "searcher" /\ flags.isRegex /\ InvalidRegex(flags.pattern)
       THEN /\ pc' = "done"
            /\ result' = [result EXCEPT !.Error = <<"Invalid regex">>]
            /\ UNCHANGED <<files, hist>>
       ELSE /\ pc' = "start"
            /\ files' = Walk
            /\ result' = (IF engine = "resolver"
                          THEN [result EXCEPT !.FilesCount = Len(Walk)] ELSE result)
            /\ hist' = [deq  |-> [k \in 1..Len(Walk) |-> 0],
                        proc |-> [k \in 1..Len(Walk) |-> 0],
                        recv |-> [k \in 1..Len(Walk) |-> 0]]
    /\ UNCHANGED <<engine, flags, tree, numWorkers, nextJob, jobChan, jobsClosed,
                   resultChan, resultsClosed, wpc, wjob, wg, closer>>
    /\ UNCHANGED notScanVars

\* the channels are made and the workers are started: wg.Add(1) and go, per worker
MainStart ==
    /\ pc = "start"
    /\ pc' = "send"
    /\ wg' = numWorkers
    /\ wpc' = [w \in Workers |-> "recv"]
    /\ UNCHANGED <<engine, flags, tree, numWorkers, files, nextJob, jobChan, jobsClosed,
                   resultChan, resultsClosed, wjob, closer, result, hist>>
    /\ UNCHANGED notScanVars

\* main sends the next job; a send blocks while the channel is full
MainSend ==
    /\ pc = "send"
    /\ nextJob <= Len(files)
    /\ Len(jobChan) < Cap
    /\ jobChan' = Append(jobChan, nextJob)
    /\ nextJob' = nextJob + 1
    /\ UNCHANGED <<engine, flags, tree, numWorkers, pc, files, jobsClosed, resultChan,
                   resultsClosed, wpc, wjob, wg, closer, result, hist>>
    /\ UNCHANGED notScanVars

\* all jobs are sent: close(jobs), and the goroutine that waits for the
\* workers and closes the results channel is started
MainCloseJobs ==
    /\ pc = "send"
    /\ nextJob > Len(files)
    /\ jobsClosed' = TRUE
    /\ closer' = "waiting"
    /\ pc' = "collect"
    /\ UNCHANGED <<engine, flags, tree, numWorkers, files, nextJob, jobChan, resultChan,
                   resultsClosed, wpc, wjob, wg, result, hist>>
    /\ UNCHANGED notScanVars

\* a worker receives a job from the job channel
WorkerRecv(w) ==
    /\ wpc[w] = "recv"
    /\ jobChan # <<>>
    /\ wjob' = [wjob EXCEPT ![w] = Head(jobChan)]
    /\ jobChan' = Tail(jobChan)
    /\ wpc' = [wpc EXCEPT ![w] = "work"]
    /\ hist' = [hist EXCEPT !.deq[Head(jobChan)] = @ + 1]
    /\ UNCHANGED <<engine, flags, tree, numWorkers, pc, files, nextJob, jobsClosed,
                   resultChan, resultsClosed, wg, closer, result>>
    /\ UNCHANGED notScanVars

\* a worker processes the job it holds and sends the result; a send blocks
\* while the channel is full and panics when the channel is closed
WorkerSend(w) ==
    /\ wpc[w] = "work"
    /\ resultsClosed \/ Len(resultChan) < ResultsCap
    /\ IF resultsClosed
       THEN /\ wpc' = [wpc EXCEPT ![w] = "panic"]
            /\ UNCHANGED <<resultChan, wjob>>
       ELSE /\ resultChan' = Append(resultChan,
                                    [job |-> wjob[w], val |-> Process(files[wjob[w]])])
            /\ wjob' = [wjob EXCEPT ![w] = 0]
            /\ wpc' = [wpc EXCEPT ![w] = "recv"]
    /\ hist' = [hist EXCEPT !.proc[wjob[w]] = @ + 1]
    /\ UNCHANGED <<engine, flags, tree, numWorkers, pc, files, nextJob, jobChan,
                   jobsClosed, resultsClosed, wg, closer, result>>
    /\ UNCHANGED notScanVars

\* a mutant of WorkerExit: the worker leaves without wg.Done()
WorkerExitNoDone(w) ==
    /\ wpc[w] = "recv"
    /\ jobChan = <<>>
    /\ jobsClosed
    /\ wpc' = [wpc EXCEPT ![w] = "exited"]
    /\ UNCHANGED <<engine, flags, tree, numWorkers, pc, files, nextJob, jobChan,
                   jobsClosed, resultChan, resultsClosed, wjob, wg, closer, result, hist>>
    /\ UNCHANGED notScanVars

\* the job channel is closed and drained: the worker's loop ends, wg.Done()
WorkerExit(w) ==
    /\ wpc[w] = "recv"
    /\ jobChan = <<>>
    /\ jobsClosed
    /\ wpc' = [wpc EXCEPT ![w] = "exited"]
    /\ wg' = wg - 1
    /\ UNCHANGED <<engine, flags, tree, numWorkers, pc, files, nextJob, jobChan,
                   jobsClosed, resultChan, resultsClosed, wjob, closer, result, hist>>
    /\ UNCHANGED notScanVars

\* wg.Wait() has returned: close(results)
CloserClose ==
    /\ closer = "waiting"
    /\ WaitDone(wg)
    /\ resultsClosed' = TRUE
    /\ closer' = "done"
    /\ UNCHANGED <<engine, flags, tree, numWorkers, pc, files, nextJob, jobChan,
                   jobsClosed, resultChan, wpc, wjob, wg, result, hist>>
    /\ UNCHANGED notScanVars

\* the aggregating loop receives one value and merges it; the searcher
\* leaves the loop, and returns, once the cap is reached
MainReceive ==
    /\ pc = "collect"
    /\ resultChan # <<>>
    /\ resultChan' = Tail(resultChan)
    /\ hist' = [hist EXCEPT !.recv[Head(resultChan).job] = @ + 1]
    /\ LET merged == Aggregate(result, Head(resultChan).val)
       IN  IF CapReached(merged)
           THEN /\ result' = Finish(merged)
                /\ pc' = "done"
           ELSE /\ result' = merged
                /\ pc' = "collect"
    /\ UNCHANGED <<engine, flags, tree, numWorkers, files, nextJob, jobChan, jobsClosed,
                   resultsClosed, wpc, wjob, wg, closer>>
    /\ UNCHANGED notScanVars

\* the results channel is closed and drained: the loop ends and main returns
MainFinish ==
    /\ pc = "collect"
    /\ resultChan = <<>>
    /\ resultsClosed
    /\ result' = Finish(result)
    /\ pc' = "done"
    /\ UNCHANGED <<engine, flags, tree, numWorkers, files, nextJob, jobChan, jobsClosed,
                   resultChan, resultsClosed, wpc, wjob, wg, closer, hist>>
    /\ UNCHANGED notScanVars

NextScan ==
    \/ MainWalk
    \/ MainStart
    \/ MainSend
    \/ MainCloseJobs
    \/ \E w \in Workers : WorkerRecv(w)
    \/ \E w \in Workers : WorkerSend(w)
    \/ \E w \in Workers : WorkerExit(w)
    \/ CloserClose
    \/ MainReceive
    \/ MainFinish

\* no scanning engine runs
ScanIdle ==
    /\ engine = "none" /\ flags = <<>> /\ tree = <<>> /\ numWorkers = 0
    /\ pc = "idle" /\ files = <<>> /\ nextJob = 0
    /\ jobChan = <<>> /\ jobsClosed = FALSE /\ resultChan = <<>> /\ resultsClosed = FALSE
    /\ wpc = <<>> /\ wjob = <<>> /\ wg = 0 /\ closer = "unborn"
    /\ result = <<>> /\ hist = <<>>

-----------------------------------------------------------------------------
(* The inputs the scanning engines are run on.                             *)

File(name, size, readable, content) ==
    [name |-> name, size |-> size, readable |-> readable, content |-> content]

Dir(name) == [name |-> name, size |-> 0, readable |-> TRUE, content |-> <<>>]

\* the tree with no entry below the root
EmptyTree == [n \in {} |-> Dir(<<>>)]

\* the sizes of the indexer's files: small, and at the hashing limit
SmallSize == 3

\* trees of the indexer: files with and without the filtered extension, at
\* the root, in a directory that may be hidden or excluded, and one level deeper
IndexerTrees ==
    {EmptyTree}
    \cup {(2 :> File(n2, SmallSize, TRUE, <<>>))
          @@ (4 :> Dir(n4))
          @@ (5 :> File(<<"c", ".", "P", "Y">>, TenMiB, TRUE, <<>>))
          @@ (6 :> Dir(n6))
          @@ (7 :> File(<<"d", ".", "p", "y">>, SmallSize, r7, <<>>)) :
            n2 \in {<<"a", ".", "p", "y">>, <<"a", ".", "t", "x", "t">>},
            n4 \in {<<"s">>, <<".", "g">>, Vendor},
            n6 \in {<<"t">>, <<".", "h">>},
            r7 \in BOOLEAN}

IndexerFlags ==
    [dir : {<<Dot>>, <<<<"p">>>>, <<<<".", "c">>>>},
     withHash : {TRUE},
     extensions : {<<>>, <<"P", "Y", ",", " ", "t", "x", "t">>},
     maxDepth : {-1, 1},
     excludeDirs : {<<>>, <<"s", " ", ",", "v", "e", "n", "d", "o", "r">>}]

InitIndexer ==
    /\ engine = "indexer"
    /\ flags \in IndexerFlags
    /\ tree \in IndexerTrees
    /\ PoolAtStart

\* lines of text for the searcher
SearchContents ==
    {<<>>, <<<<"a">>>>, <<<<"b", "a">>, <<"b">>, <<"A">>>>}

\* trees of the searcher: three text files, one of them in a directory that
\* may be hidden, or a binary file in place of the first
SearchTrees ==
    {(2 :> File(n2, SmallSize, TRUE, c2))
     @@ (3 :> File(<<"b", ".", "t", "x", "t">>, SmallSize, r3, <<<<"a">>, <<"a">>>>))
     @@ (4 :> Dir(n4))
     @@ (5 :> File(<<"c", ".", "P", "Y">>, SmallSize, TRUE, <<<<"A">>>>)) :
        n2 \in {<<"a", ".", "p", "y">>, <<"x", ".", "b", "i", "n">>},
        c2 \in SearchContents,
        r3 \in BOOLEAN,
        n4 \in {<<"s">>, <<".", "g">>}}

\* the -max default (line 261): larger than any number of matches of the model
DefaultMax == 100

SearchFlags ==
    [dir : {<<Dot>>},
     pattern : {<<"a">>},
     isRegex : {FALSE},
     ignoreCase : BOOLEAN,
     filePattern : {<<>>, <<"*", ".", "p", "y">>},
     maxResults : {-1, 0, 1, 2, DefaultMax}]
    \cup
    [dir : {<<Dot>>},
     pattern : {<<"a">>, <<"(">>},
     isRegex : {TRUE},
     ignoreCase : {FALSE},
     filePattern : {<<>>},
     maxResults : {2}]

InitSearcher ==
    /\ engine = "searcher"
    /\ flags \in SearchFlags
    /\ tree \in SearchTrees
    /\ PoolAtStart

\* lines of source for the resolver; the symbol looked for is f
LineDefF == <<"d", "e", "f", " ", "f", "(", ")">>
LineIndentedDefF == <<" ", " ", "d", "e", "f", " ", "f", "(", ")">>
LineCallF == <<"f", "(", ")">>
LineDefG == <<"d", "e", "f", " ", "f", "g", "(", ")">>
LineFuncF == <<"f", "u", "n", "c", " ", "f", "(", ")">>
LineMethodF == <<"f", "u", "n", "c", " ", "(", "r", ")", " ", "f", "(", ")">>
LineOther == <<"d", "f", " ", "=", " ", "x">>

PyContents ==
    {<<>>, <<LineDefF>>, <<LineCallF>>, <<LineCallF, LineIndentedDefF, LineDefG>>,
     <<LineDefF, LineOther, LineDefF>>}

GoContents == {<<LineFuncF, LineCallF>>, <<LineMethodF>>}

\* trees of the resolver: two Python files at the root and a Go file in a
\* directory that may be hidden
ResolverTrees ==
    {(2 :> File(<<"a", ".", "p", "y">>, SmallSize, TRUE, c2))
     @@ (3 :> File(<<"b", ".", "P", "Y">>, SmallSize, r3, c3))
     @@ (4 :> Dir(n4))
     @@ (5 :> File(<<"c", ".", "g", "o">>, SmallSize, TRUE, c5)) :
        c2 \in PyContents,
        c3 \in {<<LineCallF>>, <<LineDefF, LineCallF>>},
        r3 \in BOOLEAN,
        n4 \in {<<"s">>, <<".", "g">>},
        c5 \in GoContents}

ResolverFlags ==
    [symbol : {<<"f">>},
     dir : {<<Dot>>},
     extensions : {<<>>, <<"p", "y">>}]

\* the end-to-end example: a.py holding "def foo(): pass" and b.py holding
\* "foo()", and foo resolved in that directory
LineDefFoo ==
    <<"d", "e", "f", " ", "f", "o", "o", "(", ")", ":", " ", "p", "a", "s", "s">>
LineCallFoo == <<"f", "o", "o", "(", ")">>

FooTree ==
    (2 :> File(<<"a", ".", "p", "y">>, SmallSize, TRUE, <<LineDefFoo>>))
    @@ (3 :> File(<<"b", ".", "p", "y">>, SmallSize, TRUE, <<LineCallFoo>>))

FooFlags == [symbol |-> <<"f", "o", "o">>, dir |-> <<Dot>>, extensions |-> <<>>]

InitResolver ==
    /\ engine = "resolver"
    /\ \/ flags \in ResolverFlags /\ tree \in ResolverTrees
       \/ flags = FooFlags /\ tree = FooTree
    /\ PoolAtStart

\* trees of the analyzer: source files of known and unknown languages
AnalyzerTrees ==
    {EmptyTree}
    \cup {(2 :> File(<<"a", ".", "p", "y">>, SmallSize, TRUE, <<LineDefF>>))
          @@ (3 :> File(n3, SmallSize, r3, <<LineCallF>>))
          @@ (4 :> Dir(n4))
          @@ (5 :> File(<<"c", ".", "g", "o">>, SmallSize, TRUE, <<LineFuncF>>)) :
            n3 \in {<<"b", ".", "P", "Y">>, <<"b", ".", "t", "x", "t">>},
            r3 \in BOOLEAN,
            n4 \in {<<"s">>, Vendor}}

AnalyzerFlags ==
    [dir : {<<Dot>>, <<<<"p">>>>},
     extensions : {<<>>, <<"p", "y">>},
     symbolType : {<<>>},
     maxDepth : {-1, 0}]

InitAnalyzer ==
    /\ engine = "analyzer"
    /\ flags \in AnalyzerFlags
    /\ tree \in AnalyzerTrees
    /\ PoolAtStart

-----------------------------------------------------------------------------
(* Diff engine: computeDiff and generatePatch (diff mode).                 *)

\* the texts a line can have
LineTexts == {"a", "b"}

\* a hunk line: the tag (" " context, "-" removed, "+" added) and the text
Line(tag, text) == <<tag, text>>

\* old[k] and new[k] of the code, k a 0-based index
OldAt(k) == oldLines[k + 1]
NewAt(k) == newLines[k + 1]

\* the loop condition of lines 119 and 135
MoreLines == curI < Len(oldLines) \/ curJ < Len(newLines)

\* the two cursors stand on equal lines (the condition of lines 120 and 136)
SameAt(a, b) == a < Len(oldLines) /\ b < Len(newLines) /\ OldAt(a) = NewAt(b)

\* a run of equal lines that is never recognised
MatchRunNone(a, b) == 0

\* lines 120-123: how many equal lines the cursors can advance over together
RECURSIVE MatchRun(_, _)
MatchRun(a, b) == IF SameAt(a, b) THEN 1 + MatchRun(a + 1, b + 1) ELSE 0

\* old[from], ..., old[to - 1] as context lines (lines 131-133 and 142-146)
ContextLines(from, to) == [k \in 1..(to - from) |-> Line(" ", OldAt(from + k - 1))]

\* a mutant of DiffHunk: the old range one line short
DiffHunkShortOld(st, iEnd, jEnd, ls) ==
    [OldStart |-> st + 1, OldCount |-> Max(0, iEnd - st - 1),
     NewStart |-> st + 1, NewCount |-> jEnd - st, Lines |-> ls]

\* lines 162-168: the DiffHunk appended when a hunk closes
DiffHunk(st, iEnd, jEnd, ls) ==
    [OldStart |-> st + 1, OldCount |-> iEnd - st,
     NewStart |-> st + 1, NewCount |-> jEnd - st, Lines |-> ls]

\* generatePatch: the two header lines, then per hunk its @@ line and its lines
RECURSIVE PatchOf(_)
PatchOf(hs) ==
    IF hs = <<>> THEN <<>>
    ELSE LET h == Head(hs)
         IN  <<<<"@@", h.OldStart, h.OldCount, h.NewStart, h.NewCount>>>>
             \o h.Lines \o PatchOf(Tail(hs))

generatePatch(hs) == <<<<"---", "old">>, <<"+++", "new">>>> \o PatchOf(hs)

\* the diff mode is not running
DiffIdle ==
    /\ dpc = "idle"
    /\ oldLines = <<>> /\ newLines = <<>> /\ ctx = 0
    /\ curI = 0 /\ curJ = 0 /\ start = 0 /\ startJ = 0
    /\ lines = <<>> /\ hunks = <<>> /\ hunkNewPos = <<>> /\ patch = <<>>

InitDiffRun ==
    /\ dpc = "outer"
    /\ oldLines \in SeqsOf(LineTexts, 0, MaxLines)
    /\ newLines \in SeqsOf(LineTexts, 0, MaxLines)
    /\ ctx \in 0..MaxCtx
    /\ curI = 0 /\ curJ = 0 /\ start = 0 /\ startJ = 0
    /\ lines = <<>> /\ hunks = <<>> /\ hunkNewPos = <<>> /\ patch = <<>>

\* lines 119-133: one pass of the outer loop up to the hunk loop: leave the
\* loop when both files are consumed; else skip the run of equal lines, and
\* either break (both consumed) or open a hunk with its leading context
DiffOuter ==
    /\ dpc = "outer"
    /\ LET n  == MatchRun(curI, curJ)
           i1 == curI + n
           j1 == curJ + n
           st == Max(0, i1 - ctx)
       IN  IF ~MoreLines \/ (i1 >= Len(oldLines) /\ j1 >= Len(newLines))
           THEN /\ dpc' = "patch"
                /\ curI' = (IF MoreLines THEN i1 ELSE curI)
                /\ curJ' = (IF MoreLines THEN j1 ELSE curJ)
                /\ UNCHANGED <<start, startJ, lines>>
           ELSE /\ dpc' = "hunk"
                /\ curI' = i1
                /\ curJ' = j1
                /\ start' = st
                /\ lines' = ContextLines(st, i1)
                /\ startJ' = j1 - (i1 - st)
    /\ UNCHANGED <<oldLines, newLines, ctx, hunks, hunkNewPos, patch>>
    /\ UNCHANGED notDiffVars

\* lines 135-159: one iteration of the hunk loop
DiffHunkStep ==
    /\ dpc = "hunk"
    /\ IF ~MoreLines THEN
           /\ dpc' = "close"
           /\ UNCHANGED <<curI, curJ, lines>>
       ELSE IF SameAt(curI, curJ) THEN
           IF MatchRun(curI, curJ) > ctx * 2 THEN
               \* the files realign: ctx trailing context lines, then break
               LET n == Min(ctx, Len(oldLines) - curI)
               IN  /\ lines' = lines \o ContextLines(curI, curI + n)
                   /\ curI' = curI + n
                   /\ curJ' = curJ + n
                   /\ dpc' = "close"
           ELSE
               /\ lines' = Append(lines, Line(" ", OldAt(curI)))
               /\ curI' = curI + 1
               /\ curJ' = curJ + 1
               /\ dpc' = "hunk"
       ELSE IF curI < Len(oldLines) THEN
           /\ lines' = Append(lines, Line("-", OldAt(curI)))
           /\ curI' = curI + 1
           /\ UNCHANGED <<curJ, dpc>>
       ELSE
           /\ lines' = Append(lines, Line("+", NewAt(curJ)))
           /\ curJ' = curJ + 1
           /\ UNCHANGED <<curI, dpc>>
    /\ UNCHANGED <<oldLines, newLines, ctx, start, startJ, hunks, hunkNewPos, patch>>
    /\ UNCHANGED notDiffVars

\* lines 161-169: the hunk is appended if it has lines; back to the outer loop
DiffCloseHunk ==
    /\ dpc = "close"
    /\ dpc' = "outer"
    /\ IF Len(lines) > 0
       THEN /\ hunks' = Append(hunks, DiffHunk(start, curI, curJ, lines))
            /\ hunkNewPos' = Append(hunkNewPos, startJ)
       ELSE UNCHANGED <<hunks, hunkNewPos>>
    /\ UNCHANGED <<oldLines, newLines, ctx, curI, curJ, start, startJ, lines, patch>>
    /\ UNCHANGED notDiffVars

\* generateDiff, lines 105-112: computeDiff has returned; the patch is rendered
DiffGeneratePatch ==
    /\ dpc = "patch"
    /\ dpc' = "done"
    /\ patch' = generatePatch(hunks)
    /\ UNCHANGED <<oldLines, newLines, ctx, curI, curJ, start, startJ, lines, hunks,
                   hunkNewPos>>
    /\ UNCHANGED notDiffVars

NextDiff == DiffOuter \/ DiffHunkStep \/ DiffCloseHunk \/ DiffGeneratePatch

-----------------------------------------------------------------------------
(* Diff engine: applyReplace (apply and preview mode). *)

\* the target file is missing or unreadable: os.ReadFile fails
NoFile == <<"ENOENT">>
NoError == <<>>

Chars == {"a", "b"}

\* the -new-text values tried: empty, one character, longer than -old-text
NewTexts == {<<>>, <<"b">>, <<"a", "b", "a">>}

\* ApplyResult{Success, FilePath, Content, Error}
ApplyResult(success, content, err) ==
    [Success |-> success, Content |-> content, Error |-> err]

\* what a call of applyReplace leaves: the result, the file, and whether
\* os.WriteFile was called
Outcome(res, file, wrote) == [res |-> res, file |-> file, wrote |-> wrote]

\* a mutant of applyReplace: preview writes the file as apply does
applyReplacePreviewWrites(content, old, new, preview, fault) ==
    IF content = NoFile THEN
        Outcome(ApplyResult(FALSE, <<>>, <<"read error">>), content, FALSE)
    ELSE IF ~Contains(content, old) THEN
        Outcome(ApplyResult(FALSE, <<>>, <<"Text not found">>), content, FALSE)
    ELSE IF Count(content, old) > 1 THEN
        Outcome(ApplyResult(FALSE, <<>>,
                            <<"Found %d matches, need unique match", Count(content, old)>>),
                content, FALSE)
    ELSE LET newContent == ReplaceFirst(content, old, new)
         IN  Outcome(ApplyResult(TRUE, IF preview THEN newContent ELSE <<>>, NoError),
                     newContent, TRUE)

\* applyReplace(path, oldText, newText, preview). content is what os.ReadFile
\* returns (NoFile: it fails); fault is what os.WriteFile does when it is
\* called: "none" (it writes), "denied" (it fails and leaves the file), or
\* "truncated" (it fails after the file was opened with O_TRUNC).
applyReplace(content, old, new, preview, fault) ==
    IF content = NoFile THEN
        Outcome(ApplyResult(FALSE, <<>>, <<"read error">>), content, FALSE)
    ELSE IF ~Contains(content, old) THEN
        Outcome(ApplyResult(FALSE, <<>>, <<"Text not found">>), content, FALSE)
    ELSE IF Count(content, old) > 1 THEN
        Outcome(ApplyResult(FALSE, <<>>,
                            <<"Found %d matches, need unique match", Count(content, old)>>),
                content, FALSE)
    ELSE LET newContent == ReplaceFirst(content, old, new)
         IN  IF preview THEN
                 Outcome(ApplyResult(TRUE, newContent, NoError), content, FALSE)
             ELSE IF fault = "denied" THEN
                 Outcome(ApplyResult(FALSE, <<>>, <<"write error">>), content, TRUE)
             ELSE IF fault = "truncated" THEN
                 Outcome(ApplyResult(FALSE, <<>>, <<"write error">>), <<>>, TRUE)
             ELSE Outcome(ApplyResult(TRUE, <<>>, NoError), newContent, TRUE)

\* the apply / preview mode is not running
ReplaceIdle ==
    /\ rpc = "idle" /\ mode = "diff"
    /\ fsFile = <<>> /\ fsFile0 = <<>> /\ oldText = <<>> /\ newText = <<>>
    /\ writeFault = "none" /\ writes = 0 /\ stdout = <<>>

InitReplaceRun ==
    /\ rpc = "start"
    /\ mode \in {"apply", "preview"}
    /\ fsFile \in SeqsOf(Chars, 0, MaxFileLen) \cup {NoFile}
    /\ fsFile0 = fsFile
    /\ oldText \in SeqsOf(Chars, 0, MaxOldLen)
    /\ newText \in NewTexts
    /\ writeFault \in {"none", "denied", "truncated"}
    /\ writes = 0
    /\ stdout = <<>>

\* main, case "apply" / "preview": applyReplace when -target and -old-text are
\* given (the target is always given here), else the usage error; then outputJSON
MainReplace ==
    /\ rpc = "start"
    /\ rpc' = "done"
    /\ IF oldText # <<>>
       THEN LET r == applyReplace(fsFile, oldText, newText, mode = "preview", writeFault)
            IN  /\ stdout' = Append(stdout, r.res)
                /\ fsFile' = r.file
                /\ writes' = writes + (IF r.wrote THEN 1 ELSE 0)
       ELSE /\ stdout' = Append(stdout,
                   ApplyResult(FALSE, <<>>, <<"-target and -old-text required">>))
            /\ UNCHANGED <<fsFile, writes>>
    /\ UNCHANGED <<mode, fsFile0, oldText, newText, writeFault>>
    /\ UNCHANGED notReplaceVars

NextReplace == MainReplace

-----------------------------------------------------------------------------
(* Diff engine: main, the dispatch on the -mode flag.                      *)

\* a path flag that was not given has the empty string as its value
NoFlag == <<>>

\* DiffResult{Success, Error}, with the diff and the patch left out
DiffResult(success, err) == [Success |-> success, Error |-> err]

\* generateDiff (lines 94-112): both files are read, a read error is the
\* result; oldLines and newLines are what readLines returns (NoFile: it fails)
generateDiff(old, new) ==
    IF old = NoFile \/ new = NoFile
    THEN DiffResult(FALSE, <<"read error">>)
    ELSE DiffResult(TRUE, NoError)

\* the documents main hands to outputJSON, in order (lines 50-72): the
\* switch has a case for "diff", "apply" and "preview" and no default
mainDocuments(args) ==
    CASE args.mode = "diff" ->
            IF args.old # NoFlag /\ args.new # NoFlag
            THEN <<generateDiff(args.old, args.new)>>
            ELSE <<DiffResult(FALSE, <<"-old and -new required">>)>>
      [] args.mode \in {"apply", "preview"} ->
            IF args.target # NoFlag /\ args.oldText # <<>>
            THEN <<applyReplace(args.target, args.oldText, args.newText,
                                args.mode = "preview", "none").res>>
            ELSE <<ApplyResult(FALSE, <<>>, <<"-target and -old-text required">>)>>
      [] OTHER -> <<>>

\* main of the diff engine is not running
CliIdle == cliPc = "idle" /\ cliArgs = <<>> /\ cliFile = <<>> /\ cliOut = <<>>

\* what main leaves in the target file: apply mode writes it (lines 59-61)
mainTarget(args) ==
    IF args.mode = "apply" /\ args.target # NoFlag /\ args.oldText # <<>>
    THEN applyReplace(args.target, args.oldText, args.newText, FALSE, "none").file
    ELSE args.target

\* the values of -mode: the three modes, another word, and the empty string
Modes == {"diff", "apply", "preview", "patch", ""}

\* a path flag: not given, or naming a file that cannot be read, or a file
PathArgs == {NoFlag, NoFile, <<"a">>, <<"a", "a">>}

InitCli ==
    /\ cliPc = "start"
    /\ cliArgs \in [mode : Modes, old : PathArgs, new : PathArgs, target : PathArgs,
                    oldText : {<<>>, <<"a">>}, newText : {<<"b">>}]
    /\ cliFile = cliArgs.target
    /\ cliOut = <<>>

\* main (lines 40-70): flag.Parse, the switch, and outputJSON of each document
MainDispatch ==
    /\ cliPc = "start"
    /\ cliPc' = "done"
    /\ cliOut' = cliOut \o mainDocuments(cliArgs)
    /\ cliFile' = mainTarget(cliArgs)
    /\ UNCHANGED cliArgs
    /\ UNCHANGED notCliVars

NextCli == MainDispatch

-----------------------------------------------------------------------------
(* Change watcher: collectState, compareStates, compareSnapshot, watchFor. *)

\* a time.Time: the instant, and the Location the value carries. The Go
\* operators == and != on time.Time compare both.
Time(sec, loc) == [sec |-> sec, loc |-> loc]

\* FileState{ModTime, Size}
FileState(modTime, size) == [ModTime |-> modTime, Size |-> size]

\* info.ModTime(): time.Unix(sec, nsec), which carries the Local location
ModTimeOf(n) == Time(tree[n].mtime, "Local")

\* the set of the elements of a sequence
Range(q) == {q[k] : k \in 1..Len(q)}

\* the orders a map's entries can be ranged over
OrdersOf(S) ==
    {q \in [1..Cardinality(S) -> S] : \A a, b \in 1..Cardinality(S) : a # b => q[a] # q[b]}

\* collectState: one entry per file the walk accepts
collectState ==
    [p \in {j.Path : j \in Range(Walk)} |->
        LET j == CHOOSE x \in Range(Walk) : x.Path = p
        IN  FileState(ModTimeOf(j.node), tree[j.node].size)]

\* Time.MarshalJSON: RFC 3339 text with the zone offset, "Z" when it is zero
MarshalTime(t) == <<t.sec, IF zoneZero THEN "Z" ELSE "+01:00">>

\* Time.UnmarshalJSON: "Z" gives the UTC location; an offset that is the local
\* zone's offset at that instant gives Local
UnmarshalTime(text) == Time(text[1], IF text[2] = "Z" THEN "UTC" ELSE "Local")

\* the snapshot as -snapshot writes it and compareSnapshot reads it back
\* (takeSnapshot, outputJSON; os.ReadFile, json.Unmarshal)
SnapshotRoundTrip(snap) ==
    [p \in DOMAIN snap |->
        FileState(UnmarshalTime(MarshalTime(snap[p].ModTime)), snap[p].Size)]

\* FileEvent{Type, Path, Timestamp, Size}
FileEvent(type, path, timestamp, size) ==
    [Type |-> type, Path |-> path, Timestamp |-> timestamp, Size |-> size]

\* time.Now() of compareStates, the timestamp of the deleted events
Now == Time(0, "Local")

\* a mutant of OldLoopEvents: a path in both snapshots is always modified
OldLoopEventsAlways(old, new) ==
    {FileEvent("deleted", p, Now, 0) : p \in DOMAIN old \ DOMAIN new}
    \cup {FileEvent("modified", p, new[p].ModTime, new[p].Size) :
            p \in DOMAIN old \cap DOMAIN new}

\* lines 151-158 of compareStates: the events of the loop over old
OldLoopEvents(old, new) ==
    {FileEvent("deleted", p, Now, 0) : p \in DOMAIN old \ DOMAIN new}
    \cup {FileEvent("modified", p, new[p].ModTime, new[p].Size) :
            p \in {x \in DOMAIN old \cap DOMAIN new : new[x].ModTime # old[x].ModTime}}

\* a mutant of NewLoopEvents: a path in both snapshots whose size grew is
\* reported as created
NewLoopEventsGrown(old, new) ==
    {FileEvent("created", p, new[p].ModTime, new[p].Size) :
        p \in {x \in DOMAIN new : x \in DOMAIN old => new[x].Size > old[x].Size}}

\* lines 160-164 of compareStates: the events of the loop over new
NewLoopEvents(old, new) ==
    {FileEvent("created", p, new[p].ModTime, new[p].Size) : p \in DOMAIN new \ DOMAIN old}

\* compareStates: the event lists it can return, one per order in which the
\* two maps are ranged over
compareStates(old, new) ==
    {a \o b : a \in OrdersOf(OldLoopEvents(old, new)),
              b \in OrdersOf(NewLoopEvents(old, new))}

\* the watcher is not running
WatchIdle ==
    /\ tpc = "idle" /\ sinceMode = FALSE /\ zoneZero = FALSE
    /\ state = <<>> /\ newState = <<>> /\ events = <<>>

\* the pool of the scanning engines is not used
PoolUnused ==
    /\ numWorkers = 0 /\ pc = "idle" /\ files = <<>> /\ nextJob = 0
    /\ jobChan = <<>> /\ jobsClosed = FALSE /\ resultChan = <<>> /\ resultsClosed = FALSE
    /\ wpc = <<>> /\ wjob = <<>> /\ wg = 0 /\ closer = "unborn"
    /\ result = <<>> /\ hist = <<>>

\* a file of the watched tree
WatchedFile(name, mtime, size) ==
    [name |-> name, size |-> size, readable |-> TRUE, content |-> <<>>, mtime |-> mtime]

\* the modification times a file can have (seconds)
MTimes == {1, 2}

\* the watched trees: a file at the root and a file in a directory that may
\* be hidden, each present or not, with its modification time and size
WatchOptions(n, name) ==
    {EmptyTree} \cup {(n :> WatchedFile(name, t, z)) : t \in MTimes, z \in {SmallSize, SmallSize + 1}}

WatchTrees ==
    {a @@ (4 :> Dir(n4)) @@ b :
        a \in WatchOptions(2, <<"a", ".", "p", "y">>),
        n4 \in {<<"s">>, <<".", "g">>},
        b \in WatchOptions(5, <<"c", ".", "P", "Y">>)}

WatchFlags ==
    [dir : {<<Dot>>, <<<<".", "c">>>>},
     extensions : {<<>>, <<"p", "y">>},
     excludeDirs : {<<".", "g", "i", "t">>}]

InitWatcher ==
    /\ engine = "watcher"
    /\ flags \in WatchFlags
    /\ tree \in WatchTrees
    /\ PoolUnused
    /\ tpc = "start"
    /\ sinceMode \in BOOLEAN
    /\ zoneZero \in BOOLEAN
    /\ state = <<>> /\ newState = <<>> /\ events = <<>>

\* the reference snapshot: compareSnapshot reads the snapshot that -snapshot
\* wrote (lines 131-139), watchFor collects it (line 170)
WatchReference ==
    /\ tpc = "start"
    /\ tpc' = "wait"
    /\ state' = (IF sinceMode THEN SnapshotRoundTrip(collectState) ELSE collectState)
    /\ UNCHANGED <<sinceMode, zoneZero, newState, events>>
    /\ UNCHANGED notWatchVars

\* the files of the watched tree change, or not, while the watcher waits
FsChange ==
    /\ tpc = "wait"
    /\ tree' \in WatchTrees
    /\ \A n \in DirNodes \cap DOMAIN tree : tree'[n] = tree[n]
    /\ tpc' = "changed"
    /\ UNCHANGED <<sinceMode, zoneZero, state, newState, events>>
    /\ UNCHANGED <<engine, flags, numWorkers, pc, files, nextJob, jobChan, jobsClosed,
                   resultChan, resultsClosed, wpc, wjob, wg, closer, result, hist>>
    /\ UNCHANGED <<diffVars, replaceVars, runVars, cliVars, fileVars, liveVars, gitVars>>

\* lines 141-142 and 176-177: the current state is collected and compared
\* with the reference
WatchCompare ==
    /\ tpc = "changed"
    /\ tpc' = "done"
    /\ newState' = collectState
    /\ events' \in compareStates(state, collectState)
    /\ UNCHANGED <<sinceMode, zoneZero, state>>
    /\ UNCHANGED notWatchVars

NextWatch == WatchReference \/ FsChange \/ WatchCompare

-----------------------------------------------------------------------------
(* Change watcher, live mode: watchFor and watchContinuous.                *)

\* the longest -duration, in seconds
MaxSeconds == 2
\* the most ticks of watchContinuous that are followed
MaxTicks == 2
\* the longest time.Sleep(time.Second) takes, in seconds
MaxSleep == 2

\* the live watcher is not running
LiveIdle ==
    /\ lpc = "idle" /\ duration = 0 /\ clock = 0 /\ end = 0
    /\ liveState = <<>> /\ allEvents = <<>> /\ liveResult = <<>>
    /\ sig = FALSE /\ emitted = <<>> /\ ticks = 0 /\ snapshots = <<>>

\* the trees watched live: the two files, each present or not, of one size
LiveTrees ==
    {t \in WatchTrees :
        /\ t[4].name = <<"s">>
        /\ \A n \in DOMAIN t \ DirNodes : t[n].size = SmallSize}

\* WatchResult{Success, Events, Count}
WatchResult(success, evs, count) == [Success |-> success, Events |-> evs, Count |-> count]

\* main, lines 64-69: -duration above 0 selects watchFor, else watchContinuous
Bounded == duration > 0

InitLive ==
    /\ engine = "watcher"
    /\ flags \in {f \in WatchFlags : f.dir = <<Dot>>}
    /\ tree \in LiveTrees
    /\ PoolUnused
    /\ lpc = "start"
    /\ duration \in 0..MaxSeconds
    /\ clock = 0 /\ end = 0
    /\ liveState = <<>> /\ allEvents = <<>> /\ liveResult = <<>>
    /\ sig = FALSE /\ emitted = <<>> /\ ticks = 0 /\ snapshots = <<>>

\* the files change, or not, while the loop sleeps or waits
TreeChanges ==
    /\ tree' \in LiveTrees
    /\ UNCHANGED <<engine, flags, numWorkers, pc, files, nextJob, jobChan, jobsClosed,
                   resultChan, resultsClosed, wpc, wjob, wg, closer, result, hist>>

\* watchFor, lines 170-173: the reference snapshot and the deadline
WatchForStart ==
    /\ lpc = "start" /\ Bounded
    /\ liveState' = collectState
    /\ snapshots' = <<collectState>>
    /\ end' = clock + duration
    /\ lpc' = "check"
    /\ UNCHANGED <<duration, clock, allEvents, liveResult, sig, emitted, ticks>>
    /\ UNCHANGED scanVars /\ UNCHANGED notLiveVars

\* line 174, the loop's condition holds: time.Now().Before(end)
WatchForCheck ==
    /\ lpc = "check" /\ clock < end
    /\ lpc' = "sleep"
    /\ UNCHANGED <<duration, clock, end, liveState, allEvents, liveResult, sig, emitted,
                   ticks, snapshots>>
    /\ UNCHANGED scanVars /\ UNCHANGED notLiveVars

\* line 175: time.Sleep(time.Second) takes a second or more
WatchForSleep ==
    /\ lpc = "sleep"
    /\ \E d \in 1..MaxSleep : clock' = clock + d
    /\ TreeChanges
    /\ lpc' = "tick"
    /\ UNCHANGED <<duration, end, liveState, allEvents, liveResult, sig, emitted, ticks,
                   snapshots>>
    /\ UNCHANGED notLiveVars

\* a mutant of WatchForTick: the reference snapshot is kept
WatchForTickKeepsReference ==
    /\ lpc = "tick" /\ Bounded
    /\ \E evs \in compareStates(liveState, collectState) : allEvents' = allEvents \o evs
    /\ liveState' = liveState
    /\ snapshots' = Append(snapshots, collectState)
    /\ ticks' = ticks + 1
    /\ lpc' = "check"
    /\ UNCHANGED <<duration, clock, end, liveResult, sig, emitted>>
    /\ UNCHANGED scanVars /\ UNCHANGED notLiveVars

\* lines 176-179: the new snapshot is compared with the reference, its events
\* are appended, and it becomes the reference
WatchForTick ==
    /\ lpc = "tick" /\ Bounded
    /\ \E evs \in compareStates(liveState, collectState) : allEvents' = allEvents \o evs
    /\ liveState' = collectState
    /\ snapshots' = Append(snapshots, collectState)
    /\ ticks' = ticks + 1
    /\ lpc' = "check"
    /\ UNCHANGED <<duration, clock, end, sig, emitted, liveResult>>
    /\ UNCHANGED scanVars /\ UNCHANGED notLiveVars

\* lines 174 and 182: the deadline has passed, the result is returned
WatchForReturn ==
    /\ lpc = "check" /\ ~(clock < end)
    /\ liveResult' = WatchResult(TRUE, allEvents, Len(allEvents))
    /\ lpc' = "done"
    /\ UNCHANGED <<duration, clock, end, liveState, allEvents, sig, emitted, ticks, snapshots>>
    /\ UNCHANGED scanVars /\ UNCHANGED notLiveVars

\* watchContinuous, lines 186-189: the signals are routed to the channel and
\* the reference snapshot is collected
ContinuousStart ==
    /\ lpc = "start" /\ ~Bounded
    /\ liveState' = collectState
    /\ snapshots' = <<collectState>>
    /\ lpc' = "select"
    /\ UNCHANGED <<duration, clock, end, allEvents, liveResult, sig, emitted, ticks>>
    /\ UNCHANGED scanVars /\ UNCHANGED notLiveVars

\* SIGINT or SIGTERM is delivered: signal.Notify's channel of capacity 1
\* takes it
SignalDelivered ==
    /\ lpc \in {"select", "tick"} /\ ~Bounded
    /\ ~sig
    /\ sig' = TRUE
    /\ UNCHANGED <<lpc, duration, clock, end, liveState, allEvents, liveResult, emitted,
                   ticks, snapshots>>
    /\ UNCHANGED scanVars /\ UNCHANGED notLiveVars

\* lines 195-197: the select receives from the signal channel and returns
ContinuousReturn ==
    /\ lpc = "select" /\ sig
    /\ sig' = FALSE
    /\ lpc' = "done"
    /\ UNCHANGED <<duration, clock, end, liveState, allEvents, liveResult, emitted, ticks,
                   snapshots>>
    /\ UNCHANGED scanVars /\ UNCHANGED notLiveVars

\* a mutant of ContinuousTimer: the timer's case is taken although a signal
\* is in the channel
ContinuousTimerOverSignal ==
    /\ lpc = "select"
    /\ ticks < MaxTicks
    /\ clock' = clock + 1
    /\ TreeChanges
    /\ lpc' = "tick"
    /\ UNCHANGED <<duration, end, liveState, allEvents, liveResult, sig, emitted, ticks,
                   snapshots>>
    /\ UNCHANGED notLiveVars

\* line 198: the select waited a second with no signal in the channel, and
\* the timer created for this iteration fires
ContinuousTimer ==
    /\ lpc = "select" /\ ~sig
    /\ ticks < MaxTicks
    /\ clock' = clock + 1
    /\ TreeChanges
    /\ lpc' = "tick"
    /\ UNCHANGED <<duration, end, liveState, allEvents, liveResult, sig, emitted, ticks,
                   snapshots>>
    /\ UNCHANGED notLiveVars

\* lines 199-203: the new snapshot is compared with the reference, each event
\* is encoded, and the new snapshot becomes the reference
ContinuousTick ==
    /\ lpc = "tick" /\ ~Bounded
    /\ \E evs \in compareStates(liveState, collectState) : emitted' = emitted \o evs
    /\ liveState' = collectState
    /\ snapshots' = Append(snapshots, collectState)
    /\ ticks' = ticks + 1
    /\ lpc' = "select"
    /\ UNCHANGED <<duration, clock, end, allEvents, liveResult, sig>>
    /\ UNCHANGED scanVars /\ UNCHANGED notLiveVars

\* the steps of the program in live mode: all but the delivery of a signal
LiveStep ==
    \/ WatchForStart \/ WatchForCheck \/ WatchForSleep \/ WatchForTick \/ WatchForReturn
    \/ ContinuousStart \/ ContinuousReturn \/ ContinuousTimer \/ ContinuousTick

NextLive == LiveStep \/ SignalDelivered

-----------------------------------------------------------------------------
(* Version-control wrapper: main of git-analyzer.                          *)

\* the modes of the switch of main
GitModes == {"blame", "log", "diff", "status", "branches"}

\* GitResult{Success, Mode, Error}; the payload fields (Blame, Commits,
\* Status, Diff, Branches) are not followed
GitResult(success, requested, err) ==
    [Success |-> success, Mode |-> requested, Error |-> err]

\* the git-analyzer is not running
GitIdle ==
    /\ gpc = "idle" /\ gitArgs = <<>> /\ gitRun = <<>> /\ gitResult = <<>> /\ gitOut = <<>>

\* runGit, lines 79-89: the output, or the error's text: the stderr of a
\* command that ended without success, or the text of another error
runGit ==
    CASE gitRun.err = "nil" -> [out |-> gitRun.out, err |-> "nil", text |-> ""]
      [] gitRun.err = "ExitError" -> [out |-> "", err |-> "error", text |-> gitRun.stderr]
      [] OTHER -> [out |-> "", err |-> "error", text |-> "exec: git: not found"]

\* a mutant of FromGit: the requested mode is set in the returned result
FromGitWithMode ==
    IF runGit.err # "nil" THEN GitResult(FALSE, gitArgs.mode, runGit.text)
    ELSE GitResult(TRUE, gitArgs.mode, "")

\* getLog, getDiff, getStatus, getBranches, and getBlame with a file: the
\* result literal after runGit, which names no Mode
FromGit ==
    IF runGit.err # "nil" THEN GitResult(FALSE, "", runGit.text)
    ELSE GitResult(TRUE, "", "")

\* getBlame, lines 91-99
getBlame ==
    IF gitArgs.file = "" THEN GitResult(FALSE, "", "-file required") ELSE FromGit

\* json.Encoder.Encode of a GitResult: the error key is omitted when empty
EncodeGitResult(r) ==
    [k \in {"success", "mode"} \cup (IF r.Error = "" THEN {} ELSE {"error"}) |->
        CASE k = "success" -> IF r.Success THEN "true" ELSE "false"
          [] k = "mode" -> r.Mode
          [] OTHER -> r.Error]

InitGit ==
    /\ gpc = "start"
    /\ gitArgs \in [mode : GitModes \cup {"", "tags"}, file : {"", "f.go"}]
    /\ gitRun \in [err : {"nil", "ExitError", "notFound"}, out : {"", "x"},
                   stderr : {"", "fatal: not a git repository"}]
    /\ gitResult = <<>> /\ gitOut = <<>>

\* main, lines 56-72: the result gets the mode, then the switch assigns it
GitDispatch ==
    /\ gpc = "start"
    /\ gitResult' =
         (CASE gitArgs.mode = "blame" -> getBlame
            [] gitArgs.mode \in GitModes \ {"blame"} -> FromGit
            [] OTHER -> [GitResult(FALSE, gitArgs.mode, "") EXCEPT
                            !.Error = "Mode required: blame, log, diff, status, branches"])
    /\ gpc' = "encode"
    /\ UNCHANGED <<gitArgs, gitRun, gitOut>>
    /\ UNCHANGED notGitVars

\* main, lines 74-76: the result is encoded to standard output
GitEncode ==
    /\ gpc = "encode"
    /\ gitOut' = Append(gitOut, EncodeGitResult(gitResult))
    /\ gpc' = "done"
    /\ UNCHANGED <<gitArgs, gitRun, gitResult>>
    /\ UNCHANGED notGitVars

NextGit == GitDispatch \/ GitEncode

-----------------------------------------------------------------------------
(* Parallel runner: runTasks and runTask.                                  *)

\* the worker count when -workers is 0 or less (line 138)
DefaultWorkers == 4

\* the most tasks of a run
MaxTasks == 2

\* what cmd.Output() returns for a task, and ctx.Err() after it:
\*   err  "nil", "ExitError" (the process ended without success), "ctx" (the
\*        context's error: the deadline had passed before the process was
\*        started), "other" (the process could not be started)
\*   code ExitError.ExitCode(): the exit status, -1 for a process that was
\*        ended by a signal
\*   killed the process was killed because the deadline expired
Completed == [err |-> "nil", code |-> 0, stderr |-> "", ctxErr |-> "nil", killed |-> FALSE]
ExitedNonZero ==
    [err |-> "ExitError", code |-> 1, stderr |-> "e", ctxErr |-> "nil", killed |-> FALSE]
KilledAtDeadline ==
    [err |-> "ExitError", code |-> -1, stderr |-> "", ctxErr |-> "DeadlineExceeded",
     killed |-> TRUE]
ExpiredBeforeStart ==
    [err |-> "ctx", code |-> 0, stderr |-> "", ctxErr |-> "DeadlineExceeded",
     killed |-> FALSE]
SpawnError == [err |-> "other", code |-> 0, stderr |-> "", ctxErr |-> "nil", killed |-> FALSE]

Fates == {Completed, ExitedNonZero, KilledAtDeadline, ExpiredBeforeStart, SpawnError}

\* TaskResult{ID, ExitCode, Success, Error, Stderr}
TaskResult(id, exitCode, success, error, stderr) ==
    [ID |-> id, ExitCode |-> exitCode, Success |-> success, Error |-> error,
     Stderr |-> stderr]

\* the zero TaskResult of make([]TaskResult, len(tasks))
ZeroResult == TaskResult(0, 0, FALSE, "", "")

\* a mutant of runTask: a process that ended without success and wrote
\* nothing to standard error counts as a success
runTaskQuietSuccess(task) ==
    LET f == task.fate
    IN  IF f.err = "nil" THEN TaskResult(task.ID, 0, TRUE, "", "")
        ELSE IF f.err = "ExitError" THEN
            TaskResult(task.ID, f.code, f.stderr = "", "", f.stderr)
        ELSE IF f.ctxErr = "DeadlineExceeded" THEN
            TaskResult(task.ID, -1, FALSE, "timeout exceeded", "")
        ELSE TaskResult(task.ID, -1, FALSE, "spawn error", "")

\* runTask, lines 200-221
runTask(task) ==
    LET f == task.fate
    IN  IF f.err = "nil" THEN TaskResult(task.ID, 0, TRUE, "", "")
        ELSE IF f.err = "ExitError" THEN
            TaskResult(task.ID, f.code, FALSE, "", f.stderr)
        ELSE IF f.ctxErr = "DeadlineExceeded" THEN
            TaskResult(task.ID, -1, FALSE, "timeout exceeded", "")
        ELSE TaskResult(task.ID, -1, FALSE, "spawn error", "")

\* a mutant of WriteSlot: a failed task is not counted
WriteSlotCountsSuccessOnly(res, idx, tr) ==
    [res EXCEPT !.Results[idx] = tr,
                !.SuccessCount = IF tr.Success THEN @ + 1 ELSE @]

\* lines 160-165: the slot of the task and one of the two counters
WriteSlot(res, idx, tr) ==
    [res EXCEPT !.Results[idx] = tr,
                !.SuccessCount = IF tr.Success THEN @ + 1 ELSE @,
                !.FailCount = IF tr.Success THEN @ ELSE @ + 1]

RunWorkers == 1..maxWorkers

\* lines 137-139: the worker count, the default applied
workerCount(given) == IF given <= 0 THEN DefaultWorkers ELSE given

\* the runner is not running
RunIdle ==
    /\ runPc = "idle" /\ tasks = <<>> /\ workersGiven = 0 /\ maxWorkers = 0
    /\ runNext = 0
    /\ runJobs = <<>> /\ runJobsClosed = FALSE
    /\ runWpc = <<>> /\ runIdx = <<>> /\ taskResult = <<>>
    /\ mu = 0 /\ runWg = 0 /\ runResult = <<>> /\ slotWrites = <<>>

\* the -workers values tried: 0 (the default applies) and 1..MaxWorkers
InitRunner ==
    /\ runPc = "start"
    /\ \E n \in 1..MaxTasks : \E fs \in [1..n -> Fates] :
          tasks = [k \in 1..n |-> [ID |-> k, fate |-> fs[k]]]
    /\ workersGiven \in 0..MaxWorkers
    /\ maxWorkers = workerCount(workersGiven)
    /\ runNext = 1
    /\ runJobs = <<>> /\ runJobsClosed = FALSE
    /\ runWpc = [w \in RunWorkers |-> "unborn"]
    /\ runIdx = [w \in RunWorkers |-> 0]
    /\ taskResult = [w \in RunWorkers |-> ZeroResult]
    /\ mu = 0 /\ runWg = 0
    /\ runResult = [Results |-> [k \in 1..Len(tasks) |-> ZeroResult],
                    TotalTasks |-> Len(tasks), SuccessCount |-> 0, FailCount |-> 0]
    /\ slotWrites = [k \in 1..Len(tasks) |-> 0]

\* lines 151-169: the workers are started, wg.Add(1) each
RunStart ==
    /\ runPc = "start"
    /\ runPc' = "send"
    /\ runWg' = maxWorkers
    /\ runWpc' = [w \in RunWorkers |-> "recv"]
    /\ UNCHANGED <<tasks, workersGiven, maxWorkers, runNext, runJobs, runJobsClosed, runIdx, taskResult, mu,
                   runResult, slotWrites>>
    /\ UNCHANGED notRunVars

\* lines 171-173: main sends the next index; the channel holds len(tasks)
RunSend ==
    /\ runPc = "send"
    /\ runNext <= Len(tasks)
    /\ Len(runJobs) < Len(tasks)
    /\ runJobs' = Append(runJobs, runNext)
    /\ runNext' = runNext + 1
    /\ UNCHANGED <<runPc, tasks, workersGiven, maxWorkers, runJobsClosed, runWpc, runIdx, taskResult,
                   mu, runWg, runResult, slotWrites>>
    /\ UNCHANGED notRunVars

\* line 174: every index is sent, close(jobs); main goes on to wg.Wait()
RunCloseJobs ==
    /\ runPc = "send"
    /\ runNext > Len(tasks)
    /\ runJobsClosed' = TRUE
    /\ runPc' = "wait"
    /\ UNCHANGED <<tasks, workersGiven, maxWorkers, runNext, runJobs, runWpc, runIdx, taskResult, mu,
                   runWg, runResult, slotWrites>>
    /\ UNCHANGED notRunVars

\* line 155: a worker receives an index
RunWorkerRecv(w) ==
    /\ runWpc[w] = "recv"
    /\ runJobs # <<>>
    /\ runIdx' = [runIdx EXCEPT ![w] = Head(runJobs)]
    /\ runJobs' = Tail(runJobs)
    /\ runWpc' = [runWpc EXCEPT ![w] = "run"]
    /\ UNCHANGED <<runPc, tasks, workersGiven, maxWorkers, runNext, runJobsClosed, taskResult, mu, runWg,
                   runResult, slotWrites>>
    /\ UNCHANGED notRunVars

\* lines 156-157: the worker runs the task; runTask returns when the
\* subprocess has ended or the deadline has passed
RunWorkerRunTask(w) ==
    /\ runWpc[w] = "run"
    /\ taskResult' = [taskResult EXCEPT ![w] = runTask(tasks[runIdx[w]])]
    /\ runWpc' = [runWpc EXCEPT ![w] = "lock"]
    /\ UNCHANGED <<runPc, tasks, workersGiven, maxWorkers, runNext, runJobs, runJobsClosed, runIdx, mu, runWg,
                   runResult, slotWrites>>
    /\ UNCHANGED notRunVars

\* a lock that is taken without waiting for the holder
RunWorkerLockNoWait(w) ==
    /\ runWpc[w] = "lock"
    /\ mu' = w
    /\ runWpc' = [runWpc EXCEPT ![w] = "write"]
    /\ UNCHANGED <<runPc, tasks, workersGiven, maxWorkers, runNext, runJobs, runJobsClosed,
                   runIdx, taskResult, runWg, runResult, slotWrites>>
    /\ UNCHANGED notRunVars

\* line 159: mu.Lock()
RunWorkerLock(w) ==
    /\ runWpc[w] = "lock"
    /\ mu = 0
    /\ mu' = w
    /\ runWpc' = [runWpc EXCEPT ![w] = "write"]
    /\ UNCHANGED <<runPc, tasks, workersGiven, maxWorkers, runNext, runJobs, runJobsClosed, runIdx, taskResult,
                   runWg, runResult, slotWrites>>
    /\ UNCHANGED notRunVars

\* lines 160-166: the slot and a counter are written, mu.Unlock()
RunWorkerWrite(w) ==
    /\ runWpc[w] = "write"
    /\ runResult' = WriteSlot(runResult, runIdx[w], taskResult[w])
    /\ slotWrites' = [slotWrites EXCEPT ![runIdx[w]] = @ + 1]
    /\ mu' = 0
    /\ runIdx' = [runIdx EXCEPT ![w] = 0]
    /\ runWpc' = [runWpc EXCEPT ![w] = "recv"]
    /\ UNCHANGED <<runPc, tasks, workersGiven, maxWorkers, runNext, runJobs, runJobsClosed, taskResult, runWg>>
    /\ UNCHANGED notRunVars

\* the channel is closed and drained: the worker's loop ends, wg.Done()
RunWorkerExit(w) ==
    /\ runWpc[w] = "recv"
    /\ runJobs = <<>>
    /\ runJobsClosed
    /\ runWpc' = [runWpc EXCEPT ![w] = "exited"]
    /\ runWg' = runWg - 1
    /\ UNCHANGED <<runPc, tasks, workersGiven, maxWorkers, runNext, runJobs, runJobsClosed, runIdx, taskResult,
                   mu, runResult, slotWrites>>
    /\ UNCHANGED notRunVars

\* lines 176-179: wg.Wait() returns, and runTasks returns the result
RunReturn ==
    /\ runPc = "wait"
    /\ runWg = 0
    /\ runPc' = "done"
    /\ UNCHANGED <<tasks, workersGiven, maxWorkers, runNext, runJobs, runJobsClosed, runWpc, runIdx, taskResult,
                   mu, runWg, runResult, slotWrites>>
    /\ UNCHANGED notRunVars

NextRun ==
    \/ RunStart
    \/ RunSend
    \/ RunCloseJobs
    \/ \E w \in RunWorkers : RunWorkerRecv(w)
    \/ \E w \in RunWorkers : RunWorkerRunTask(w)
    \/ \E w \in RunWorkers : RunWorkerLock(w)
    \/ \E w \in RunWorkers : RunWorkerWrite(w)
    \/ \E w \in RunWorkers : RunWorkerExit(w)
    \/ RunReturn

-----------------------------------------------------------------------------
(* Code analyzer: analyzeFile, the scan of one file line by line.           *)

\* (\w+) at the start of s, as long as it can be (empty when s is Fail)
Word(s) == IF s = Fail THEN <<>> ELSE SubSeq(s, 1, WordLen(s))

\* what follows (\w+) at the start of s, or Fail when no word is there
AfterWord(s) ==
    IF s = Fail \/ WordLen(s) = 0 THEN Fail ELSE SubSeq(s, WordLen(s) + 1, Len(s))

\* len(matches[1]) of the patterns that open with ^(\s*)
Indent(line) == Len(line) - Len(SkipSpaces(line))

KwImport == <<"i", "m", "p", "o", "r", "t">>
KwFrom == <<"f", "r", "o", "m">>

\* (?:\.\w+)* of the Decorator pattern: the length of the dotted parts
RECURSIVE DottedLen(_)
DottedLen(s) ==
    IF HasPrefix(s, <<".">>) /\ WordLen(Tail(s)) > 0
    THEN 1 + WordLen(Tail(s))
           + DottedLen(SubSeq(s, WordLen(Tail(s)) + 2, Len(s)))
    ELSE 0

\* (?:\(.*?\))? of the Decorator pattern: the length of the call part
CallLen(s) ==
    IF HasPrefix(s, <<"(">>) /\ Contains(s, <<")">>) THEN Index(s, <<")">>) ELSE 0

\* python Decorator: matches[2], or Fail
DecoratorMatch(lang, line) ==
    IF lang # "python" THEN Fail
    ELSE LET r == Lit(SkipSpaces(line), <<"@">>)
         IN  IF r = Fail \/ WordLen(r) = 0 THEN Fail
             ELSE LET w == WordLen(r)
                      d == DottedLen(SubSeq(r, w + 1, Len(r)))
                      c == CallLen(SubSeq(r, w + d + 1, Len(r)))
                  IN  SubSeq(r, 1, w + d + c)

\* import\s+(.+) at the start of s
ImportTail(s) == LET r == Lit(s, KwImport)
                 IN  r # Fail /\ Len(r) >= 2 /\ Head(r) \in SpaceChars

\* \S+ at the start of s, as long as it can be; what follows it, or Fail
RECURSIVE SkipNonSpaces(_)
SkipNonSpaces(s) ==
    IF s # <<>> /\ Head(s) \notin SpaceChars THEN SkipNonSpaces(Tail(s)) ELSE s

NonSpaces1(s) ==
    IF s # Fail /\ s # <<>> /\ Head(s) \notin SpaceChars THEN SkipNonSpaces(s) ELSE Fail

\* "([^"]+)" at the start of s
Quoted(s) ==
    /\ s # Fail
    /\ HasPrefix(s, <<"\"">>)
    /\ Index(Tail(s), <<"\"">>) >= 2

\* the alternatives of the go Import pattern after the optional keyword
GoImportSpec(s) ==
    \/ Quoted(s)
    \/ Quoted(Spaces1(AfterWord(s)))

\* patterns.Import matches the line
ImportMatch(lang, line) ==
    CASE lang = "python" ->
            \/ ImportTail(line)
            \/ LET r == Spaces1(NonSpaces1(Spaces1(Lit(line, KwFrom))))
               IN  r # Fail /\ ImportTail(r)
      [] lang = "go" ->
            \/ GoImportSpec(SkipSpaces(line))
            \/ GoImportSpec(Spaces1(Lit(SkipSpaces(line), KwImport)))
      [] OTHER -> FALSE

\* some ")" of s is followed by \s*:
RECURSIVE ClosesBeforeColon(_)
ClosesBeforeColon(s) ==
    LET k == Index(s, <<")">>)
        rest == SubSeq(s, k + 1, Len(s))
    IN  /\ k # 0
        /\ \/ HasPrefix(SkipSpaces(rest), <<":">>)
           \/ ClosesBeforeColon(rest)

\* python Class: matches[2], or Fail
ClassMatch(lang, line) ==
    IF lang # "python" THEN Fail
    ELSE LET r == Spaces1(Lit(SkipSpaces(line), KwClass))
             rest == AfterWord(r)
         IN  IF rest = Fail THEN Fail
             ELSE IF \/ HasPrefix(SkipSpaces(rest), <<":">>)
                     \/ /\ HasPrefix(SkipSpaces(rest), <<"(">>)
                        /\ ClosesBeforeColon(SkipSpaces(rest))
                  THEN Word(r) ELSE Fail

\* a pattern that does not match
NoMatch == [ok |-> FALSE]

\* \((.*?)\) at the start of s: the captured text and what follows
Parens(s) ==
    IF s = Fail \/ ~HasPrefix(s, <<"(">>) \/ ~Contains(s, <<")">>) THEN NoMatch
    ELSE LET k == Index(s, <<")">>)
         IN  [ok |-> TRUE, signature |-> SubSeq(s, 2, k - 1),
              rest |-> SubSeq(s, k + 1, Len(s))]

\* (?:\((\w+)\s+\*?(\w+)\)\s+) of the go Function pattern at the start of s:
\* matches[1], matches[2] and what follows
GoReceiver(s) ==
    LET r1 == Lit(s, <<"(">>)
        r2 == Spaces1(AfterWord(r1))
        r3 == IF r2 # Fail /\ HasPrefix(r2, <<"*">>) THEN Tail(r2) ELSE r2
        r4 == Spaces1(Lit(AfterWord(r3), <<")">>))
    IN  IF r4 = Fail THEN NoMatch
        ELSE [ok |-> TRUE, name |-> Word(r1), type |-> Word(r3), rest |-> r4]

\* patterns.Function: the captures the code reads
FunctionMatch(lang, line) ==
    CASE lang = "python" ->
            LET r == Spaces1(Lit(SkipSpaces(line), KwDef))
                p == Parens(IF AfterWord(r) = Fail THEN Fail
                            ELSE SkipSpaces(AfterWord(r)))
            IN  IF ~p.ok \/ ~Contains(p.rest, <<":">>) THEN NoMatch
                ELSE [ok |-> TRUE, indent |-> Indent(line), name |-> Word(r),
                      signature |-> p.signature, receiver |-> <<>>]
      [] lang = "go" ->
            LET r == Spaces1(Lit(line, KwFunc))
                rc == IF r = Fail THEN NoMatch ELSE GoReceiver(r)
                n == IF rc.ok THEN rc.rest ELSE r
                p == Parens(IF AfterWord(n) = Fail THEN Fail
                            ELSE SkipSpaces(AfterWord(n)))
            IN  IF ~p.ok THEN NoMatch
                ELSE [ok |-> TRUE, indent |-> 0, name |-> Word(n),
                      signature |-> p.signature,
                      receiver |-> IF rc.ok THEN rc.type ELSE <<>>]
      [] OTHER -> NoMatch

\* the Symbol the loop appends
Symbol(name, type, line, signature, parent, decorators) ==
    [Name |-> name, Type |-> type, Line |-> line, Signature |-> signature,
     Parent |-> parent, Decorators |-> decorators]

\* symbolTypeFilter == "" || symbolTypeFilter == symType
Admits(filter, symType) == filter = "" \/ filter = symType

\* a def is a method whenever it is indented
pythonIsMethodByIndent(indent, currentClass) == indent > 0

\* isMethod of a python def
pythonIsMethod(indent, currentClass) == indent > 0 /\ currentClass # <<>>

\* the variables of the loop before the first line
ScanStart ==
    [lineNum |-> 0, currentClass |-> <<>>, pendingDecorators |-> <<>>,
     inMultilineImport |-> FALSE, importBuffer |-> <<>>,
     Symbols |-> <<>>, Imports |-> <<>>]

\* a line inside a multi-line import
ContinueImport(st, trimmedLine) ==
    LET buf == st.importBuffer \o <<" ">> \o trimmedLine
    IN  IF Contains(trimmedLine, <<")">>)
        THEN [st EXCEPT !.inMultilineImport = FALSE,
                        !.Imports = Append(@, TrimSpace(buf)),
                        !.importBuffer = <<>>]
        ELSE [st EXCEPT !.importBuffer = buf]

\* a line the Import pattern matches
OnImport(st, filter, line, trimmedLine) ==
    IF Contains(line, <<"(">>) /\ ~Contains(line, <<")">>)
    THEN [st EXCEPT !.inMultilineImport = TRUE, !.importBuffer = trimmedLine]
    ELSE [st EXCEPT
            !.Imports = Append(@, trimmedLine),
            !.Symbols = IF Admits(filter, "import")
                        THEN Append(@, Symbol(trimmedLine, "import", st.lineNum,
                                              <<>>, <<>>, <<>>))
                        ELSE @]

\* a class line that consumes the pending decorators only when it is emitted
OnClassConsumesWhenEmitted(st, filter, line, className) ==
    [st EXCEPT
        !.currentClass = IF Indent(line) = 0 THEN className ELSE @,
        !.Symbols = IF Admits(filter, "class")
                    THEN Append(@, Symbol(className, "class", st.lineNum, <<>>,
                                          <<>>, st.pendingDecorators))
                    ELSE @,
        !.pendingDecorators = IF Admits(filter, "class") THEN <<>> ELSE @]

\* a line the Class pattern matches
OnClass(st, filter, line, className) ==
    [st EXCEPT
        !.currentClass = IF Indent(line) = 0 THEN className ELSE @,
        !.Symbols = IF Admits(filter, "class")
                    THEN Append(@, Symbol(className, "class", st.lineNum, <<>>,
                                          <<>>, st.pendingDecorators))
                    ELSE @,
        !.pendingDecorators = <<>>]

\* a line the Function pattern matches
OnFunction(st, lang, filter, m) ==
    LET isMethod == IF lang = "python"
                    THEN pythonIsMethod(m.indent, st.currentClass)
                    ELSE m.receiver # <<>>
        currentClass == IF lang = "go" /\ m.receiver # <<>>
                        THEN m.receiver ELSE st.currentClass
        symType == IF isMethod THEN "method" ELSE "function"
    IN  [st EXCEPT
            !.currentClass = currentClass,
            !.Symbols = IF Admits(filter, symType)
                        THEN Append(@, Symbol(m.name, symType, st.lineNum,
                                              m.signature,
                                              IF isMethod THEN currentClass ELSE <<>>,
                                              st.pendingDecorators))
                        ELSE @,
            !.pendingDecorators = <<>>]

\* a line no pattern matches
OnOtherLine(st, lang, line, trimmedLine) ==
    [st EXCEPT
        !.pendingDecorators =
            IF Len(@) > 0 /\ ~HasPrefix(trimmedLine, <<"@">>) THEN <<>> ELSE @,
        !.currentClass =
            IF /\ lang = "python"
               /\ @ # <<>>
               /\ Len(line) > 0
               /\ Head(line) # " "
               /\ ~HasPrefix(trimmedLine, <<"#">>)
            THEN <<>> ELSE @]

\* the branch of the loop body that handles the line
LineKind(st, lang, line) ==
    IF TrimSpace(line) = <<>> THEN "blank"
    ELSE IF st.inMultilineImport THEN "continuation"
    ELSE IF DecoratorMatch(lang, line) # Fail THEN "decorator"
    ELSE IF ImportMatch(lang, line) THEN "import"
    ELSE IF ClassMatch(lang, line) # Fail THEN "class"
    ELSE IF FunctionMatch(lang, line).ok THEN "function"
    ELSE "other"

\* one iteration of the loop over the lines
ScanLine(st0, lang, filter, line) ==
    LET st == [st0 EXCEPT !.lineNum = @ + 1]
        trimmedLine == TrimSpace(line)
        kind == LineKind(st, lang, line)
    IN  CASE kind = "blank" -> st
          [] kind = "continuation" -> ContinueImport(st, trimmedLine)
          [] kind = "decorator" ->
                [st EXCEPT !.pendingDecorators =
                               Append(@, DecoratorMatch(lang, line))]
          [] kind = "import" -> OnImport(st, filter, line, trimmedLine)
          [] kind = "class" -> OnClass(st, filter, line, ClassMatch(lang, line))
          [] kind = "function" ->
                OnFunction(st, lang, filter, FunctionMatch(lang, line))
          [] OTHER -> OnOtherLine(st, lang, line, trimmedLine)

\* the loop over the first n lines
RECURSIVE ScanUpTo(_, _, _, _)
ScanUpTo(lang, filter, text, n) ==
    IF n = 0 THEN ScanStart
    ELSE ScanLine(ScanUpTo(lang, filter, text, n - 1), lang, filter, text[n])

\* the lines the files are made of
LineClassA == <<"c", "l", "a", "s", "s", " ", "A", ":">>
LineInnerClass == <<" ", "c", "l", "a", "s", "s", " ", "P", ":">>
LineDefColon == <<"d", "e", "f", " ", "f", "(", ")", ":">>
LineInnerDef == <<" ", "d", "e", "f", " ", "m", "(", "s", ")", ":">>
LineDecorator == <<"@", "d">>
LineImport == <<"i", "m", "p", "o", "r", "t", " ", "o">>
LineImportOpen == <<"f", "r", "o", "m", " ", "x", " ", "i", "m", "p", "o", "r", "t", " ", "(">>
LineClose == <<"a", ")">>
LinePlain == <<"x">>
LineInnerOther == <<" ", "x">>
LineComment == <<"#", "c">>
LineBlank == <<" ">>
LineGoMethod == <<"f", "u", "n", "c", " ", "(", "r", " ", "*", "A", ")", " ", "m", "(", ")">>
LineGoImport == <<"i", "m", "p", "o", "r", "t", " ", "\"", "o", "\"">>
LineGoImportOpen == <<"i", "m", "p", "o", "r", "t", " ", "(">>

PythonLines ==
    {LineClassA, LineInnerClass, LineDefColon, LineInnerDef, LineDecorator, LineImport,
     LineImportOpen, LineClose, LineInnerOther, LineComment, LineBlank}

GoLines == {LineFuncF, LineGoMethod, LineGoImport, LineGoImportOpen, LinePlain}

MaxFileLines == 3

TypeFilters == {"", "function", "method", "class", "import"}

FilesOf(lineSet) == UNION {[1..n -> lineSet] : n \in 0..MaxFileLines}

\* analysis.Error and analysis.LineCount as analyzeFile initialises them
AnalysisStart == [Error |-> <<>>, LineCount |-> 0]

\* languagePatterns[language] != nil
HasPatterns(lang) == lang \in {"python", "go"}

\* the paths a single file is given by, and the lines of a plain file
FilePaths == {<<<<"a">> \o ExtPy>>, <<<<"a">> \o ExtGo>>, <<<<"a">> \o ExtTxt>>}
PlainLines == {LineDefColon, LineBlank}

FileIdle ==
    /\ apc = "idle"
    /\ aLang = ""
    /\ aFilter = ""
    /\ aLines = <<>>
    /\ scan = ScanStart
    /\ aReadable = FALSE
    /\ analysis = AnalysisStart

InitFile ==
    /\ apc = "scan"
    /\ \E path \in FilePaths : aLang = getLanguage(path)
    /\ aFilter \in TypeFilters
    /\ \/ /\ HasPatterns(aLang)
          /\ aReadable = TRUE
          /\ aLines \in FilesOf(IF aLang = "python" THEN PythonLines ELSE GoLines)
       \/ /\ aReadable \in BOOLEAN
          /\ aLines \in FilesOf(PlainLines)
    /\ scan = ScanStart
    /\ analysis = AnalysisStart

\* os.Open fails: analysis.Error = err.Error(), return
FileOpenFails ==
    /\ apc = "scan"
    /\ ~aReadable
    /\ apc' = "done"
    /\ analysis' = [analysis EXCEPT !.Error = <<"open error">>]
    /\ UNCHANGED <<aLang, aFilter, aLines, scan, aReadable>>
    /\ UNCHANGED notFileVars

\* patterns == nil: return analysis
FileNoPatterns ==
    /\ apc = "scan"
    /\ aReadable
    /\ ~HasPatterns(aLang)
    /\ apc' = "done"
    /\ UNCHANGED <<aLang, aFilter, aLines, scan, aReadable, analysis>>
    /\ UNCHANGED notFileVars

\* scanner.Scan() returns a line: one iteration of the loop
FileScanLine ==
    /\ apc = "scan"
    /\ aReadable
    /\ HasPatterns(aLang)
    /\ scan.lineNum < Len(aLines)
    /\ scan' = ScanLine(scan, aLang, aFilter, aLines[scan.lineNum + 1])
    /\ UNCHANGED <<apc, aLang, aFilter, aLines, aReadable, analysis>>
    /\ UNCHANGED notFileVars

\* scanner.Scan() returns false: analysis.LineCount = lineNum, return
FileReturn ==
    /\ apc = "scan"
    /\ aReadable
    /\ HasPatterns(aLang)
    /\ scan.lineNum = Len(aLines)
    /\ apc' = "done"
    /\ analysis' = [analysis EXCEPT !.LineCount = scan.lineNum]
    /\ UNCHANGED <<aLang, aFilter, aLines, scan, aReadable>>
    /\ UNCHANGED notFileVars

NextFile == FileOpenFails \/ FileNoPatterns \/ FileScanLine \/ FileReturn

-----------------------------------------------------------------------------
(* The specifications: one engine runs, the others are idle.               *)

\* the watcher and the runner are not running
OthersIdle == WatchIdle /\ RunIdle /\ CliIdle /\ FileIdle /\ LiveIdle /\ GitIdle

InitIndexerOnly == InitIndexer /\ DiffIdle /\ ReplaceIdle /\ OthersIdle
SpecIndexer == InitIndexerOnly /\ [][NextScan]_vars

InitSearcherOnly == InitSearcher /\ DiffIdle /\ ReplaceIdle /\ OthersIdle
SpecSearcher == InitSearcherOnly /\ [][NextScan]_vars

InitResolverOnly == InitResolver /\ DiffIdle /\ ReplaceIdle /\ OthersIdle
SpecResolver == InitResolverOnly /\ [][NextScan]_vars

\* the worker pool of the indexer, the analyzer and the resolver
InitPool ==
    (InitIndexer \/ InitAnalyzer \/ InitResolver) /\ DiffIdle /\ ReplaceIdle /\ OthersIdle
SpecPool == InitPool /\ [][NextScan]_vars

InitDiff == InitDiffRun /\ ReplaceIdle /\ ScanIdle /\ OthersIdle
SpecDiff == InitDiff /\ [][NextDiff]_vars

\* computeDiff and generatePatch are sequential code of the running program:
\* a step that can be taken is taken
SpecDiffFair == InitDiff /\ [][NextDiff]_vars /\ WF_vars(NextDiff)

InitReplace == InitReplaceRun /\ DiffIdle /\ ScanIdle /\ OthersIdle
SpecReplace == InitReplace /\ [][NextReplace]_vars

InitWatcherOnly ==
    InitWatcher /\ DiffIdle /\ ReplaceIdle /\ RunIdle /\ CliIdle /\ FileIdle
        /\ LiveIdle /\ GitIdle
SpecWatcher == InitWatcherOnly /\ [][NextWatch]_vars

\* the walks of the five scanning engines
InitWalks ==
    \/ (InitIndexer \/ InitSearcher \/ InitAnalyzer \/ InitResolver)
          /\ DiffIdle /\ ReplaceIdle /\ OthersIdle
    \/ InitWatcherOnly
SpecWalks == InitWalks /\ [][NextScan \/ NextWatch]_vars

InitCliOnly ==
    InitCli /\ ScanIdle /\ DiffIdle /\ ReplaceIdle /\ WatchIdle /\ RunIdle /\ FileIdle
        /\ LiveIdle /\ GitIdle
SpecCli == InitCliOnly /\ [][NextCli]_vars

InitFileOnly ==
    InitFile /\ ScanIdle /\ DiffIdle /\ ReplaceIdle /\ WatchIdle /\ RunIdle /\ CliIdle
        /\ LiveIdle /\ GitIdle

SpecFile == InitFileOnly /\ [][NextFile]_vars

InitLiveOnly ==
    InitLive /\ DiffIdle /\ ReplaceIdle /\ WatchIdle /\ RunIdle /\ CliIdle /\ FileIdle
        /\ GitIdle
SpecLive == InitLiveOnly /\ [][NextLive]_vars

\* the loop can take a step: always, but at the select, where it waits for a
\* signal or for the timer (followed for MaxTicks ticks)
LoopCanStep ==
    \/ lpc \in {"start", "check", "sleep", "tick"}
    \/ lpc = "select" /\ (sig \/ ticks < MaxTicks)

\* the steps of the loop, by what they all do and the delivery of a signal
\* does not: each moves the loop to its next position
LoopAdvances ==
    /\ LoopCanStep
    /\ lpc' \in {"check", "sleep", "tick", "select", "done"}
    /\ lpc' # lpc

\* the loop is sequential code of the running program and time passes: a
\* step of the loop that can be taken is taken; no signal need ever arrive
SpecLiveFair == InitLiveOnly /\ [][NextLive]_vars /\ WF_lpc(LoopAdvances)

InitGitOnly ==
    InitGit /\ ScanIdle /\ DiffIdle /\ ReplaceIdle /\ WatchIdle /\ RunIdle /\ CliIdle
        /\ FileIdle /\ LiveIdle
SpecGit == InitGitOnly /\ [][NextGit]_vars


InitRunnerOnly ==
    InitRunner /\ ScanIdle /\ DiffIdle /\ ReplaceIdle /\ WatchIdle /\ CliIdle /\ FileIdle
        /\ LiveIdle /\ GitIdle
SpecRunner == InitRunnerOnly /\ [][NextRun]_vars


\* the five worker pools under fair scheduling: the Go scheduler runs every
\* goroutine that stays runnable, so main, each worker and the closing
\* goroutine each take their next step if it stays enabled
\* the inputs vary the number of items (0 to 3), the number of workers and,
\* for the searcher, the cap; the contents of the files are kept short and
\* the tasks of the runner complete or are killed at the deadline, and its
\* worker count is given
InitPools ==
    \/ /\ \/ /\ InitIndexer
             /\ flags.maxDepth = -1 /\ flags.excludeDirs = <<>> /\ flags.extensions = <<>>
             /\ \A n \in DOMAIN tree : tree[n].readable /\ tree[n].name \notin {Vendor, <<".", "h">>}
          \/ /\ InitSearcher
             /\ ~flags.isRegex /\ flags.ignoreCase /\ flags.filePattern = <<>>
             /\ flags.maxResults \in {0, 1, DefaultMax}
             /\ tree[2].name = <<"a", ".", "p", "y">>
             /\ tree[2].content \in {<<>>, <<<<"a">>>>}
             /\ tree[3].readable
          \/ /\ InitAnalyzer
             /\ flags.maxDepth = -1 /\ flags.extensions = <<>>
             /\ \A n \in DOMAIN tree : tree[n].readable
          \/ /\ InitResolver
             /\ flags.extensions = <<>> /\ tree # FooTree
             /\ tree[2].content = <<LineCallF>> /\ tree[3].content = <<LineCallF>>
             /\ tree[4].name = <<".", "g">>
       /\ DiffIdle /\ ReplaceIdle /\ OthersIdle
    \/ /\ InitRunnerOnly
       /\ workersGiven > 0
       /\ \A k \in DOMAIN tasks : tasks[k].fate \in {Completed, KilledAtDeadline}
NextPools == NextScan \/ NextRun

\* main's steps in the pool, from the start of the workers on
MainStep == MainStart \/ MainSend \/ MainCloseJobs \/ MainReceive \/ MainFinish
WorkerStep(w) == w \in Workers /\ (WorkerRecv(w) \/ WorkerSend(w) \/ WorkerExit(w))
RunMainStep == RunStart \/ RunSend \/ RunCloseJobs \/ RunReturn
RunWorkerStep(w) ==
    w \in RunWorkers /\ (RunWorkerRecv(w) \/ RunWorkerRunTask(w) \/ RunWorkerLock(w)
                           \/ RunWorkerWrite(w) \/ RunWorkerExit(w))

FairPools ==
    /\ WF_vars(MainStep)
    /\ \A w \in 1..MaxWorkers : WF_vars(WorkerStep(w))
    /\ WF_vars(CloserClose)
    /\ WF_vars(RunMainStep)
    /\ \A w \in 1..Max(MaxWorkers, DefaultWorkers) : WF_vars(RunWorkerStep(w))

SpecPoolsFair == InitPools /\ [][NextPools]_vars /\ FairPools

-----------------------------------------------------------------------------
(* Claims about the worker pool.                                           *)

\* the jobs of the run, once the walk has collected them
JobIds == 1..Len(hist.deq)

-----------------------------------------------------------------------------
(* Claims about the indexer.                                               *)

\* the directories on the way from the root down to n, the root left out
RECURSIVE DirsAbove(_)
DirsAbove(n) ==
    IF Parent[n] = Root THEN {} ELSE {Parent[n]} \cup DirsAbove(Parent[n])

\* the path of n as the walk builds it
RECURSIVE PathOf(_)
PathOf(n) == IF n = Root THEN flags.dir ELSE Join(PathOf(Parent[n]), tree[n].name)

RegularFiles == {n \in DOMAIN tree : ~IsDir(n)}

\* n matches the extension filter (no filter: every file does)
MatchesExtFilter(n) ==
    \/ flags.extensions = <<>>
    \/ ToLower(ExtOfName(tree[n].name)) \in ExtFilterOf(flags.extensions, TRUE)

\* some directory on n's path below the root is excluded or dot-prefixed
UnderPrunedDir(n) ==
    \E d \in DirsAbove(n) :
        \/ tree[d].name \in ExcludeMapOf(flags.excludeDirs)
        \/ HasPrefix(tree[d].name, Dot)

\* the number of FileEntry values the result holds for n
EntriesFor(n) ==
    Cardinality({k \in 1..Len(result.Files) : result.Files[k].Path = PathOf(n)})

\* every entry of the result is the entry of a regular file of the tree
EntriesAreFiles ==
    \A k \in 1..Len(result.Files) :
        \E n \in RegularFiles : result.Files[k].Path = PathOf(n)

\* C2: without a depth limit, for any tree, extension filter and exclude set,
\* the indexer's result holds exactly one FileEntry for every regular file
\* that matches the filter and has no excluded or dot-prefixed directory on
\* its path below the root, and no entry for any other file.
C2_IndexerCompleteness ==
    (pc = "done" /\ flags.maxDepth < 0) =>
        /\ \A n \in RegularFiles :
              EntriesFor(n) = (IF MatchesExtFilter(n) /\ ~UnderPrunedDir(n) THEN 1 ELSE 0)
        /\ EntriesAreFiles

\* the walk function prunes the root itself: its name is not "." and is
\* dot-prefixed or excluded
RootPruned ==
    /\ Base(flags.dir) # Dot
    /\ \/ Base(flags.dir) \in ExcludeMapOf(flags.excludeDirs)
       \/ HasPrefix(Base(flags.dir), Dot)

\* what does hold: completeness when the root is not pruned, and an empty
\* result when it is
IndexerCompleteUnlessRootPruned ==
    (pc = "done" /\ flags.maxDepth < 0) =>
        IF RootPruned THEN result.Files = <<>> /\ result.TotalFiles = 0
        ELSE /\ \A n \in RegularFiles :
                   EntriesFor(n) =
                       (IF MatchesExtFilter(n) /\ ~UnderPrunedDir(n) THEN 1 ELSE 0)
             /\ EntriesAreFiles
             /\ result.TotalFiles = Len(result.Files)

-----------------------------------------------------------------------------
(* Claims about the searcher.                                              *)

\* the matching lines of the files the walk collected: what the tree and the
\* pattern determine, whatever the cap and the interleaving
AllMatches ==
    UNION {{[File |-> files[k].Path, Line |-> l,
             Content |-> tree[files[k].node].content[l]] :
                l \in {x \in 1..Len(tree[files[k].node].content) :
                          Found(tree[files[k].node].content[x])}} :
           k \in {j \in 1..Len(files) : tree[files[j].node].readable}}

MatchSet == {result.Matches[k] : k \in 1..Len(result.Matches)}

\* C3 as stated: for every value of max, 0 and negative values included, and
\* every interleaving, the number of matches returned never exceeds max, and
\* the reported count is the length of the returned list.
C3_NeverExceedsMax ==
    pc = "done" =>
        /\ Len(result.Matches) <= flags.maxResults
        /\ result.Count = Len(result.Matches)

\* C3, amended: the number of matches returned never exceeds max when max is
\* 0 or more and is 0 when max is negative (at every moment of the gathering),
\* and the reported count is the length of the returned list.
C3_NeverExceedsMaxOrZero ==
    /\ Len(result.Matches) <= Max(flags.maxResults, 0)
    /\ pc = "done" => result.Count = Len(result.Matches)

\* C3 witness: the cap was reached while the files hold more matching lines
C3_Witness ==
    /\ pc = "done" /\ flags.maxResults = 2 /\ numWorkers = 2
    /\ Len(result.Matches) = 2 /\ result.Count = 2
    /\ Cardinality(AllMatches) > 2

\* C4: for the same tree and pattern, every match a run with a finite cap
\* returns is in the result of the run without a cap, under every
\* interleaving of either run: a run returns matching lines of the collected
\* files only, and the run whose cap is above the number of matching lines
\* returns all of them, each once.
C4_CappedWithinUncapped ==
    pc = "done" =>
        /\ MatchSet \subseteq AllMatches
        /\ (flags.maxResults = DefaultMax /\ result.Error = <<>>) =>
               /\ MatchSet = AllMatches
               /\ Len(result.Matches) = Cardinality(AllMatches)

\* C4 witness: a capped run returned one match of several, and not the first
\* match of the first file collected
C4_Witness ==
    /\ pc = "done" /\ flags.maxResults = 1 /\ Len(result.Matches) = 1
    /\ Cardinality(AllMatches) >= 3
    /\ result.Matches[1].File # files[1].Path

-----------------------------------------------------------------------------
(* Claims about the resolver.                                              *)

\* C5: for every tree and every arrival order of the per-file results, the
\* Location chosen as the symbol's definition (its file and line) is never
\* also in the symbol's references.
C5_DefinitionNotInReferences ==
    engine = "resolver" =>
        \A d \in 1..Len(result.sym.Definition) :
            \A k \in 1..Len(result.sym.References) :
                ~ /\ result.sym.References[k].File = result.sym.Definition[d].File
                  /\ result.sym.References[k].Line = result.sym.Definition[d].Line

\* C5 witness: a definition was chosen, and a later definition line of the
\* same file and a line of another file were put with the references
C5_Witness ==
    /\ pc = "done" /\ Len(result.sym.Definition) = 1
    /\ \E k \in 1..Len(result.sym.References) :
          /\ result.sym.References[k].File = result.sym.Definition[1].File
          /\ result.sym.References[k].Text = result.sym.Definition[1].Text
    /\ \E k \in 1..Len(result.sym.References) :
          result.sym.References[k].File # result.sym.Definition[1].File

-----------------------------------------------------------------------------
(* Claims about computeDiff.                                               *)

\* the texts of the lines of ls whose tag is in tags, in order
RECURSIVE Side(_, _)
Side(ls, tags) ==
    IF ls = <<>> THEN <<>>
    ELSE (IF Head(ls)[1] \in tags THEN <<Head(ls)[2]>> ELSE <<>>) \o Side(Tail(ls), tags)

OldSide(h) == Side(h.Lines, {" ", "-"})
NewSide(h) == Side(h.Lines, {" ", "+"})

\* the hunks hs applied to the lines A from the 0-based old position pos on:
\* the lines before a hunk are kept, the hunk's old range
\* [OldStart, OldStart + OldCount) is replaced by its context and added lines
RECURSIVE ApplyFrom(_, _, _)
ApplyFrom(A, hs, pos) ==
    IF hs = <<>> THEN SubSeq(A, pos + 1, Len(A))
    ELSE LET h == Head(hs)
         IN  SubSeq(A, pos + 1, h.OldStart - 1) \o NewSide(h)
             \o ApplyFrom(A, Tail(hs), h.OldStart - 1 + h.OldCount)

\* C6: for all line sequences A and B and every context >= 0, applying the
\* hunks of computeDiff(A, B, context) to A reconstructs B exactly.
C6_DiffRoundTrip ==
    dpc = "done" => ApplyFrom(oldLines, hunks, 0) = newLines

\* C6 witness: a diff with context of two hunks, the second one after a
\* deletion has moved the cursors apart, has been applied
C6_Witness ==
    /\ dpc = "done" /\ ctx = 1 /\ Len(hunks) = 2
    /\ Len(oldLines) # Len(newLines)
    /\ ApplyFrom(oldLines, hunks, 0) = newLines

\* C7: in every hunk of computeDiff the context plus removed lines number
\* old_count, the context plus added lines number new_count, and new_start is
\* the 1-based position in the new sequence where the hunk's new side begins.
C7_HunkCountsAndNewStart ==
    dpc = "done" =>
        \A k \in 1..Len(hunks) :
            /\ Len(OldSide(hunks[k])) = hunks[k].OldCount
            /\ Len(NewSide(hunks[k])) = hunks[k].NewCount
            /\ hunks[k].NewStart = hunkNewPos[k] + 1

\* what does hold of every hunk: the old side, and either side of a hunk
\* that begins where both cursors are level
HunkOldSideAndLevelHunks ==
    dpc = "done" =>
        \A k \in 1..Len(hunks) :
            /\ Len(OldSide(hunks[k])) = hunks[k].OldCount
            /\ OldSide(hunks[k]) =
                   SubSeq(oldLines, hunks[k].OldStart,
                          hunks[k].OldStart + hunks[k].OldCount - 1)
            /\ hunkNewPos[k] + 1 = hunks[k].OldStart =>
                   /\ Len(NewSide(hunks[k])) = hunks[k].NewCount
                   /\ hunks[k].NewStart = hunkNewPos[k] + 1

-----------------------------------------------------------------------------
(* Claims about applyReplace.                                              *)

\* the one document main wrote
ReplaceDoc == stdout[1]

\* applyReplace was called on a target that could be read, and the write, if
\* one is made, succeeds
ReplaceRan ==
    /\ rpc = "done"
    /\ oldText # <<>>
    /\ fsFile0 # NoFile
    /\ (mode = "apply" => writeFault = "none")

\* the number of start positions of -old-text in the file as it was
Occurrences == Cardinality(StartPositions(fsFile0, oldText))

\* the file content with the occurrence of old at position k replaced by new
ReplacedAt(s, k, old, new) ==
    SubSeq(s, 1, k - 1) \o new \o SubSeq(s, k + Len(old), Len(s))

\* C8: applyReplace (apply or preview) succeeds if and only if old-text
\* occurs in the file content at exactly one start position; with zero or
\* with two or more start positions, overlapping ones included, it fails
\* with an error message.
C8_SucceedsIffOneStartPosition ==
    ReplaceRan =>
        /\ ReplaceDoc.Success <=> (Occurrences = 1)
        /\ (Occurrences # 1) => ReplaceDoc.Error # NoError

\* C9: when old-text occurs twice in the target file, apply and preview both
\* return success = false with a non-empty error and leave the file as it was.
C9_TwiceFailsAndKeepsFile ==
    (rpc = "done" /\ oldText # <<>> /\ fsFile0 # NoFile /\ Occurrences = 2) =>
        /\ ~ReplaceDoc.Success
        /\ ReplaceDoc.Error # NoError
        /\ fsFile = fsFile0

\* what does hold when old-text is repeated: two or more occurrences that do
\* not overlap are refused in both modes, and the file is left as it was
DisjointRepeatIsRefused ==
    (rpc = "done" /\ oldText # <<>> /\ fsFile0 # NoFile /\ Count(fsFile0, oldText) >= 2) =>
        /\ ~ReplaceDoc.Success
        /\ ReplaceDoc.Error # NoError
        /\ fsFile = fsFile0 /\ writes = 0

\* C10: with a uniquely matching old-text, on a readable and writable target,
\* preview returns the content with that one occurrence replaced and leaves
\* the file unchanged, and apply leaves the file holding that same replaced
\* content; preview never calls os.WriteFile, whatever the inputs.
C10_PreviewReturnsApplyWrites ==
    /\ (ReplaceRan /\ Occurrences = 1) =>
          LET k        == CHOOSE p \in StartPositions(fsFile0, oldText) : TRUE
              replaced == ReplacedAt(fsFile0, k, oldText, newText)
          IN  /\ ReplaceDoc.Success
              /\ mode = "preview" => /\ ReplaceDoc.Content = replaced
                                     /\ fsFile = fsFile0
              /\ mode = "apply" => fsFile = replaced
    /\ mode = "preview" => (writes = 0 /\ fsFile = fsFile0)

\* C10 witness: apply mode has rewritten a file in which old-text was unique
C10_Witness ==
    /\ ReplaceRan /\ Occurrences = 1 /\ mode = "apply"
    /\ writes = 1 /\ fsFile # fsFile0 /\ Len(fsFile0) >= 3

-----------------------------------------------------------------------------
(* Claims about compareStates.                                             *)

\* the paths of either snapshot of the comparison made
ComparedPaths == DOMAIN state \cup DOMAIN newState

\* the events of the last comparison that are about path p
EventsAbout(p) == {k \in 1..Len(events) : events[k].Path = p}

\* the event the claim asks for path p, "none" when it asks for no event;
\* modified-times differ when they are different instants
KindByInstant(p) ==
    IF p \notin DOMAIN newState THEN "deleted"
    ELSE IF p \notin DOMAIN state THEN "created"
    ELSE IF state[p].ModTime.sec # newState[p].ModTime.sec THEN "modified"
    ELSE "none"

\* the same, with modified-times compared as time.Time values (instant and
\* location), as the != of line 155 does
KindByTimeValue(p) ==
    IF p \notin DOMAIN newState THEN "deleted"
    ELSE IF p \notin DOMAIN state THEN "created"
    ELSE IF state[p].ModTime # newState[p].ModTime THEN "modified"
    ELSE "none"

\* C11: compareStates(old, new) returns exactly one event for each path that
\* is in old only (deleted), in new only (created), or in both with different
\* modified-times (modified), and no event for any other path: a path in both
\* with equal modified-time yields no event, whatever the sizes, and no path
\* yields two events.
C11_OneEventPerChangedPath ==
    tpc = "done" =>
        /\ \A k \in 1..Len(events) : events[k].Path \in ComparedPaths
        /\ \A p \in ComparedPaths :
              IF KindByInstant(p) = "none" THEN EventsAbout(p) = {}
              ELSE /\ Cardinality(EventsAbout(p)) = 1
                   /\ \A k \in EventsAbout(p) : events[k].Type = KindByInstant(p)

\* what does hold: the same with a path in both snapshots modified exactly
\* when its two time.Time values differ; and the claim itself when the
\* reference snapshot was collected (watchFor) or the zone offset is not zero
EventsByTimeValue ==
    tpc = "done" =>
        /\ \A k \in 1..Len(events) : events[k].Path \in ComparedPaths
        /\ \A p \in ComparedPaths :
              /\ IF KindByTimeValue(p) = "none" THEN EventsAbout(p) = {}
                 ELSE /\ Cardinality(EventsAbout(p)) = 1
                      /\ \A k \in EventsAbout(p) : events[k].Type = KindByTimeValue(p)
              /\ (~sinceMode \/ ~zoneZero) => KindByTimeValue(p) = KindByInstant(p)

\* C12: for every snapshot S, compareStates(S, S) yields zero events.
C12_SelfCompareIsEmpty ==
    /\ compareStates(state, state) = {<<>>}
    /\ compareStates(newState, newState) = {<<>>}
    /\ (tpc = "done" /\ newState = state) => events = <<>>

\* C12 witness: a snapshot of two files was compared with an equal snapshot
C12_Witness ==
    /\ tpc = "done" /\ newState = state
    /\ Cardinality(DOMAIN state) = 2 /\ events = <<>>

\* the (kind, path) pairs of compareStates(old, new)
KindPaths(old, new) ==
    UNION {{<<l[k].Type, l[k].Path>> : k \in 1..Len(l)} : l \in compareStates(old, new)}

\* created and deleted exchanged, modified kept
Exchanged(kind) ==
    CASE kind = "created" -> "deleted"
      [] kind = "deleted" -> "created"
      [] OTHER -> kind

\* C13: for all snapshots S1 and S2, the (kind, path) pairs of
\* compareStates(S2, S1) are those of compareStates(S1, S2) with created and
\* deleted exchanged and modified kept.
C13_ReverseExchangesKinds ==
    tpc = "done" =>
        /\ KindPaths(state, newState) = {<<events[k].Type, events[k].Path>> : k \in 1..Len(events)}
        /\ KindPaths(newState, state) =
               {<<Exchanged(x[1]), x[2]>> : x \in KindPaths(state, newState)}

\* C13 witness: a comparison that found one file modified and the other one
\* created or deleted
C13_Witness ==
    /\ tpc = "done" /\ Len(events) = 2
    /\ \E k \in 1..2 : events[k].Type = "modified"
    /\ \E k \in 1..2 : events[k].Type \in {"created", "deleted"}
    /\ KindPaths(newState, state) # KindPaths(state, newState)

-----------------------------------------------------------------------------
(* Claims about the parallel runner.                                       *)

TaskIds == 1..Len(tasks)

\* the tasks whose Results slot has been written
Recorded == {k \in TaskIds : slotWrites[k] > 0}

\* C14: a task whose subprocess was terminated because its deadline expired
\* is recorded with the error "timeout exceeded" and exit code -1, unlike a
\* task that ran to completion and exited non-zero, which has no error, the
\* real exit code and the captured standard error.
C14_TimeoutIsClassified ==
    \A k \in Recorded :
        /\ tasks[k].fate.killed =>
              /\ runResult.Results[k].Error = "timeout exceeded"
              /\ runResult.Results[k].ExitCode = -1
        /\ tasks[k].fate = ExitedNonZero =>
              /\ runResult.Results[k].Error = ""
              /\ runResult.Results[k].ExitCode = ExitedNonZero.code
              /\ runResult.Results[k].Stderr = ExitedNonZero.stderr

\* what does hold: the killed subprocess is recorded as a failure with exit
\* code -1 and no error, and "timeout exceeded" is recorded only when
\* cmd.Output returned the context's error itself
KilledTaskHasNoError ==
    \A k \in Recorded :
        /\ tasks[k].fate.killed =>
              /\ runResult.Results[k].Error = ""
              /\ runResult.Results[k].ExitCode = -1
              /\ ~runResult.Results[k].Success
        /\ runResult.Results[k].Error = "timeout exceeded" <=>
              tasks[k].fate = ExpiredBeforeStart

\* C15: runTasks returns only after every task has produced a TaskResult,
\* whatever the outcomes of the other tasks: at return each Results slot was
\* written exactly once, holds the result of its own task, and
\* success_count + fail_count = total_tasks with success_count the number of
\* results whose success flag is true.
C15_ReturnsAfterEveryTask ==
    /\ \A k \in TaskIds : slotWrites[k] <= 1
    /\ runPc = "done" =>
          /\ \A k \in TaskIds : slotWrites[k] = 1 /\ runResult.Results[k].ID = k
          /\ \A w \in RunWorkers : runWpc[w] = "exited"
          /\ runResult.TotalTasks = Len(tasks)
          /\ runResult.SuccessCount + runResult.FailCount = runResult.TotalTasks
          /\ runResult.SuccessCount =
                 Cardinality({k \in TaskIds : runResult.Results[k].Success})

\* C15 witness: a run of two tasks on the default four workers has returned,
\* one task killed at its deadline and the other completed
C15_Witness ==
    /\ runPc = "done" /\ maxWorkers = DefaultWorkers /\ Len(tasks) = 2
    /\ tasks[1].fate = KilledAtDeadline /\ tasks[2].fate = Completed
    /\ runResult.SuccessCount = 1 /\ runResult.FailCount = 1

\* the TaskResult values runTask has produced so far
Produced ==
    {runResult.Results[k] : k \in Recorded}
    \cup {taskResult[w] : w \in {x \in RunWorkers : runWpc[x] \in {"lock", "write"}}}

\* C16: for every TaskResult produced by runTask, success is true if and only
\* if exit_code is 0 and the error classification is empty.
C16_SuccessIffZeroAndNoError ==
    \A r \in Produced : r.Success <=> (r.ExitCode = 0 /\ r.Error = "")

\* C16 witness: a success, and a failure that has no error classification
C16_Witness ==
    /\ \E r \in Produced : r.Success
    /\ \E r \in Produced : ~r.Success /\ r.Error = "" /\ r.ExitCode = -1

-----------------------------------------------------------------------------
(* Claims about the results of the scanning engines.                       *)

\* what the tree and the flags determine: one processed value per job of the walk
ExpectedValues == {Process(Walk[k]) : k \in 1..Len(Walk)}

\* C17: on an unchanged tree the set of FileEntry records of the indexer and
\* the set of analyses of the analyzer are the same for every worker count
\* and every interleaving: the set, and the number of entries, are those the
\* tree and the flags determine.
C17_ResultSetIsDetermined ==
    (engine \in {"indexer", "analyzer"} /\ pc = "done") =>
        /\ {result.Files[k] : k \in 1..Len(result.Files)} = ExpectedValues
        /\ Len(result.Files) = Len(Walk)
        /\ result.TotalFiles = Len(Walk)

\* C17 witness: the analyzer, on two workers, received the analyses in
\* another order than the files were queued
C17_Witness ==
    /\ engine = "analyzer" /\ pc = "done" /\ numWorkers = 2 /\ Len(files) >= 2
    /\ result.Files[1].Path # files[1].Path
    /\ {result.Files[k] : k \in 1..Len(result.Files)} = ExpectedValues

\* the run of the example
FooRun == engine = "resolver" /\ tree = FooTree /\ flags = FooFlags

\* C18: resolving foo where a.py holds "def foo(): pass" and b.py holds
\* "foo()" yields, under every interleaving, a definition at a.py line 1, one
\* reference, at b.py line 1, total_refs = 1 and files_searched = 2.
C18_FooExample ==
    (FooRun /\ pc = "done") =>
        /\ Len(result.Symbols) = 1
        /\ Len(result.Symbols[1].Definition) = 1
        /\ result.Symbols[1].Definition[1].File = <<<<"a", ".", "p", "y">>>>
        /\ result.Symbols[1].Definition[1].Line = 1
        /\ Len(result.Symbols[1].References) = 1
        /\ result.Symbols[1].References[1].File = <<<<"b", ".", "p", "y">>>>
        /\ result.Symbols[1].References[1].Line = 1
        /\ result.TotalRefs = 1
        /\ result.FilesCount = 2

\* C18 witness: the example was resolved on two workers
C18_Witness ==
    /\ FooRun /\ pc = "done" /\ numWorkers = 2
    /\ result.TotalRefs = 1 /\ Len(result.Symbols[1].Definition) = 1

-----------------------------------------------------------------------------
(* Claims about the walk.                                                  *)

\* the names an engine's walk function prunes, besides the dot-prefixed ones
ExcludeSet ==
    CASE engine \in {"indexer", "watcher"} -> ExcludeMapOf(flags.excludeDirs)
      [] engine = "searcher" -> {NodeModules, PyCache, Vendor, Target}
      [] engine = "analyzer" -> {NodeModules, PyCache, Vendor}
      [] engine = "resolver" -> {NodeModules, PyCache}

Prunable(name) == name \in ExcludeSet \/ HasPrefix(name, Dot)

\* the walk of the current tree has been made and its outcome is held
WalkHeld ==
    IF engine = "watcher" THEN tpc = "wait"
    ELSE pc \notin {"walk", "idle"} /\ result.Error = <<>>

\* the paths the walk accepted
WalkedPaths ==
    IF engine = "watcher" THEN DOMAIN state ELSE {files[k].Path : k \in 1..Len(files)}

\* the root was entered: the walk function did not skip it, and every file
\* in the root that the walk function accepts was collected
RootEntered ==
    /\ Visit(flags.dir, Root) # "SkipDir"
    /\ \A n \in RegularFiles :
          (Parent[n] = Root /\ Visit(PathOf(n), n) = "job") => PathOf(n) \in WalkedPaths

\* no file below a non-root directory with a prunable name was collected
PrunableDirsPruned ==
    \A n \in RegularFiles :
        (\E d \in DirsAbove(n) : Prunable(tree[d].name)) => PathOf(n) \notin WalkedPaths

\* C19: in every scanning engine's walk the root itself is never pruned,
\* whatever its name, while every other directory whose name is dot-prefixed
\* or in the exclude set is pruned with its whole subtree.
C19_RootNeverPruned ==
    WalkHeld => RootEntered /\ PrunableDirsPruned

\* what does hold: the other directories are pruned as stated, and the root
\* is entered exactly when its name is "." or is not prunable
RootPrunedByName ==
    WalkHeld =>
        /\ PrunableDirsPruned
        /\ RootEntered <=> (Base(flags.dir) = Dot \/ ~Prunable(Base(flags.dir)))
        /\ ~RootEntered => WalkedPaths = {}

-----------------------------------------------------------------------------
(* Claims about the termination of the pools.                              *)

WorkersExited == \A w \in Workers : wpc[w] = "exited"
RunWorkersExited == \A w \in RunWorkers : runWpc[w] = "exited"

\* C20: under weak fairness each of the five pools terminates, for every
\* number of items N >= 0 and every worker count W >= 1: every worker exits,
\* the results channel is closed, and only after all workers have exited, and
\* the aggregator returns; the runner returns after all its workers exited.
C20_PoolsTerminate ==
    /\ [](resultsClosed => WorkersExited)
    /\ (pc = "start") ~> (pc = "done" /\ WorkersExited /\ resultsClosed)
    /\ (runPc = "start") ~> (runPc = "done" /\ RunWorkersExited)

\* C20 witness: the searcher's aggregator left its loop at the cap with a
\* result still queued, and the pool terminated all the same
C20_Witness ==
    /\ engine = "searcher" /\ pc = "done" /\ numWorkers = 2
    /\ resultChan # <<>> /\ WorkersExited /\ resultsClosed

-----------------------------------------------------------------------------
(* Claims about main of the diff engine.                                   *)

\* C21: every invocation of the diff engine writes exactly one JSON document
\* to standard output, for every value of the mode flag and every combination
\* of present or missing mode-specific flags.
C21_OneDocumentPerInvocation ==
    cliPc = "done" => Len(cliOut) = 1

\* what does hold: one document for the modes diff, apply and preview,
\* whichever flags are given, and none for any other mode
OneDocumentForKnownModes ==
    cliPc = "done" =>
        Len(cliOut) = (IF cliArgs.mode \in {"diff", "apply", "preview"} THEN 1 ELSE 0)

-----------------------------------------------------------------------------
(* Claims about the resolver's definition and references.                  *)

\* the lines the resolver scans: <<k, l>> is line l of the k-th collected file
ScannedLines ==
    UNION {{<<k, l>> : l \in 1..Len(tree[files[k].node].content)} :
              k \in {x \in 1..Len(files) : tree[files[x].node].readable}}

LineText(kl) == tree[files[kl[1]].node].content[kl[2]]

\* the definition lines and the other lines with a whole-word occurrence
DefLines ==
    {kl \in ScannedLines : IsDefLine(getLang(files[kl[1]].Path), LineText(kl), flags.symbol)}
RefLines ==
    {kl \in ScannedLines \ DefLines : IsRefLine(LineText(kl), flags.symbol)}

\* C22: with D >= 1 definition lines and R reference lines in the scanned
\* files, resolve keeps exactly one definition and reports total_refs =
\* R + D - 1; with D = 0 the definition is absent and total_refs = R;
\* total_refs is always the length of the references list.
C22_TotalRefsCount ==
    (engine = "resolver" /\ pc = "done") =>
        LET D == Cardinality(DefLines)
            R == Cardinality(RefLines)
            sym == result.Symbols[1]
        IN  /\ result.TotalRefs = Len(sym.References)
            /\ D >= 1 => Len(sym.Definition) = 1 /\ result.TotalRefs = R + D - 1
            /\ D = 0 => sym.Definition = <<>> /\ result.TotalRefs = R

\* C22 witness: several definition lines and a reference line were found
C22_Witness ==
    /\ engine = "resolver" /\ pc = "done"
    /\ Cardinality(DefLines) >= 3 /\ Cardinality(RefLines) >= 1
    /\ result.TotalRefs = Cardinality(RefLines) + Cardinality(DefLines) - 1

\* the collected files that hold a definition line
DefFiles == {kl[1] : kl \in DefLines}

\* the first definition line of the k-th collected file
FirstDefLine(k) ==
    CHOOSE l \in {kl[2] : kl \in {x \in DefLines : x[1] = k}} :
        \A kl \in DefLines : kl[1] = k => l <= kl[2]

\* the definition the aggregator holds, as <<file, line>>, or <<>>
HeldDefinition(sym) ==
    IF sym.Definition = <<>> THEN <<>>
    ELSE <<sym.Definition[1].File, sym.Definition[1].Line>>

\* C23: the reported definition is the first definition of the file whose
\* result reaches the aggregator first: a received result sets the
\* definition, to its file's definition with the smallest line number, exactly
\* when none is held yet and its file has a definition line, and a held
\* definition is never replaced; so with definitions in one file only the
\* reported definition is the same under every interleaving.
C23_FirstArrivedDefinition ==
    /\ [][(engine = "resolver" /\ pc = "collect" /\ resultChan # <<>>
             /\ resultChan' = Tail(resultChan)) =>
            LET k == Head(resultChan).job
            IN  HeldDefinition(result'.sym) =
                    IF result.sym.Definition # <<>> THEN HeldDefinition(result.sym)
                    ELSE IF k \in DefFiles THEN <<files[k].Path, FirstDefLine(k)>>
                    ELSE <<>>]_vars
    /\ []((engine = "resolver" /\ pc = "done" /\ Cardinality(DefFiles) = 1) =>
            \A k \in DefFiles :
                HeldDefinition(result.Symbols[1]) = <<files[k].Path, FirstDefLine(k)>>)

\* C23 witness: two files hold definition lines and the reported definition
\* is the one of the file that was queued later
C23_Witness ==
    /\ engine = "resolver" /\ pc = "done" /\ Cardinality(DefFiles) >= 2
    /\ \E k \in DefFiles : \E e \in DefFiles :
          /\ e < k
          /\ HeldDefinition(result.Symbols[1]) = <<files[k].Path, FirstDefLine(k)>>

\* the other order is reached as well: the definition of the file queued first
C23_EarlierFileDefinition ==
    /\ engine = "resolver" /\ pc = "done" /\ Cardinality(DefFiles) >= 2
    /\ \A k \in DefFiles : \A e \in DefFiles :
          e < k => HeldDefinition(result.Symbols[1]) # <<files[k].Path, FirstDefLine(k)>>

-----------------------------------------------------------------------------
(* Claims about the depth limit.                                           *)

\* a walk with a depth limit has been made by the indexer or the analyzer
DepthLimitedWalk ==
    /\ engine \in {"indexer", "analyzer"}
    /\ pc \notin {"walk", "idle"}
    /\ flags.maxDepth >= 0

\* the files the walk accepted
AcceptedNodes == {files[k].node : k \in 1..Len(files)}

\* the files the engine accepts when depth is left aside: the root is
\* entered, no directory above the file is pruned by its name, the extension
\* passes the filter and, for the analyzer, the language is known
OtherwiseAccepted ==
    {n \in RegularFiles :
        /\ Base(flags.dir) = Dot \/ ~Prunable(Base(flags.dir))
        /\ \A d \in DirsAbove(n) : ~Prunable(tree[d].name)
        /\ MatchesExtFilter(n)
        /\ engine = "analyzer" => getLanguage(PathOf(n)) # ""}

\* C24: with max depth d >= 0 neither the indexer nor the analyzer includes a
\* file whose path-separator depth relative to the root exceeds d, and both
\* walks accept the same files: of the files an engine would otherwise
\* accept, those of depth at most d.
C24_DepthLimitOnFiles ==
    DepthLimitedWalk =>
        /\ \A n \in AcceptedNodes : Depth(PathOf(n)) <= flags.maxDepth
        /\ AcceptedNodes = {n \in OtherwiseAccepted : Depth(PathOf(n)) <= flags.maxDepth}

\* what does hold: the indexer tests the depth of every entry, the analyzer
\* that of directories only, so it accepts the files of a directory at depth
\* d, which are at depth d + 1
DepthLimitByEngine ==
    DepthLimitedWalk =>
        AcceptedNodes =
            IF engine = "indexer"
            THEN {n \in OtherwiseAccepted : Depth(PathOf(n)) <= flags.maxDepth}
            ELSE {n \in OtherwiseAccepted : Depth(PathOf(Parent[n])) <= flags.maxDepth}

\* the separators of the path of n relative to the root: the directories
\* between the root and n
RelativeDepth(n) == Cardinality(DirsAbove(n))

\* C25: for a fixed tree and max depth d >= 0 the set of files the indexer
\* includes, identified relative to the root, does not depend on how the root
\* is spelled: it is the set the tree, the filters and d determine, the files
\* otherwise accepted whose depth relative to the root is at most d.
C25_RootSpellingIndependent ==
    (DepthLimitedWalk /\ engine = "indexer") =>
        AcceptedNodes = {n \in OtherwiseAccepted : RelativeDepth(n) <= flags.maxDepth}

\* what does hold: the root spelled "." is joined away, so the files in the
\* root are at depth 0, while under a named root they are at depth 1
DepthShiftedByRootSpelling ==
    (DepthLimitedWalk /\ engine = "indexer") =>
        AcceptedNodes =
            {n \in OtherwiseAccepted :
                RelativeDepth(n) + (IF flags.dir = <<Dot>> THEN 0 ELSE 1) <= flags.maxDepth}

-----------------------------------------------------------------------------
(* Code analyzer: the scan of one file.                                     *)

\* some line of the file has been scanned
Scanned == apc \in {"scan", "done"} /\ scan.lineNum >= 1

\* the loop's variables before the line scanned last
Before == ScanUpTo(aLang, aFilter, aLines, scan.lineNum - 1)

\* the line scanned last, and the branch that handled it
LastLine == aLines[scan.lineNum]
LastKind == LineKind(Before, aLang, LastLine)

\* C26: after every non-blank line that is not a decorator line (a
\* declaration, an import line, a line inside a multi-line import, any other
\* line) the list of pending decorators is empty
C26_NoPendingAfterNonDecoratorLine ==
    (Scanned /\ LastKind \notin {"blank", "decorator"})
        => scan.pendingDecorators = <<>>

\* what the loop does keep: the list is empty after a class line, a function
\* line and a line no pattern matches that does not start with "@"; an
\* import line and a line inside a multi-line import leave it as it was
PendingClearedByDeclarationsOnly ==
    Scanned =>
        /\ (\/ LastKind \in {"class", "function"}
            \/ LastKind = "other" /\ ~HasPrefix(TrimSpace(LastLine), <<"@">>))
               => scan.pendingDecorators = <<>>
        /\ LastKind \in {"blank", "import", "continuation"}
               => scan.pendingDecorators = Before.pendingDecorators


\* the line scanned last starts in the first column and is neither blank nor
\* a comment
LastLineTopLevel ==
    /\ TrimSpace(LastLine) # <<>>
    /\ Head(LastLine) # " "
    /\ ~HasPrefix(TrimSpace(LastLine), <<"#">>)

\* the line scanned last is a class declaration in the first column
LastLineTopLevelClass ==
    ClassMatch(aLang, LastLine) # Fail /\ Indent(LastLine) = 0

\* C27: in a Python file every non-indented, non-comment, non-blank line that
\* is not a top-level class declaration (a top-level def and an import line
\* included) leaves no enclosing class, so a later indented def is a function
\* without parent
C27_ClassResetByTopLevelLine ==
    (Scanned /\ aLang = "python" /\ LastLineTopLevel /\ ~LastLineTopLevelClass)
        => scan.currentClass = <<>>

\* what the loop does keep: only a top-level line that no pattern matches
\* resets the enclosing class; a decorator line, an import line, a line inside
\* a multi-line import and a def line leave it as it was
ClassResetByUnmatchedLineOnly ==
    (Scanned /\ aLang = "python") =>
        /\ (LastKind = "other" /\ LastLineTopLevel) => scan.currentClass = <<>>
        /\ LastKind \in {"blank", "continuation", "decorator", "import", "function"}
               => scan.currentClass = Before.currentClass

\* a def in the first column is followed by an indented def that is emitted as
\* a method of the class declared before both
MethodAfterTopLevelDef ==
    /\ apc = "done"
    /\ aLang = "python"
    /\ aFilter = ""
    /\ aLines = <<LineClassA, LineDefColon, LineInnerDef>>
    /\ scan.Symbols[3].Type = "method"
    /\ scan.Symbols[3].Parent = <<"A">>


\* the symbol emitted last
LastSymbol == scan.Symbols[Len(scan.Symbols)]

\* the type a Python def on the line scanned last is to have
DefType ==
    IF Indent(LastLine) > 0 /\ Before.currentClass # <<>> THEN "method" ELSE "function"

\* C28: a Python def is emitted as a method whose parent is the current
\* enclosing class exactly when it is indented and a class is current, and as
\* a function without parent otherwise; every emitted method has a parent and
\* no emitted function has one
C28_MethodIffIndentedInClass ==
    /\ \A i \in 1..Len(scan.Symbols) :
           /\ scan.Symbols[i].Type = "method" => scan.Symbols[i].Parent # <<>>
           /\ scan.Symbols[i].Type = "function" => scan.Symbols[i].Parent = <<>>
    /\ (Scanned /\ aLang = "python" /\ LastKind = "function"
            /\ Admits(aFilter, DefType)) =>
           /\ Len(scan.Symbols) = Len(Before.Symbols) + 1
           /\ LastSymbol.Line = scan.lineNum
           /\ LastSymbol.Type = DefType
           /\ LastSymbol.Parent =
                  IF DefType = "method" THEN Before.currentClass ELSE <<>>

\* an indented def outside every class was emitted as a function, and an
\* indented def inside a class as a method
C28_Witness ==
    /\ apc = "done"
    /\ aLang = "python"
    /\ \E i, j \in 1..Len(scan.Symbols) :
           /\ scan.Symbols[i].Type = "method"
           /\ scan.Symbols[j].Type = "function"
           /\ Indent(aLines[scan.Symbols[j].Line]) > 0


\* the line scanned last is an import line that opens a parenthesis and does
\* not close it
LastLineOpensImport ==
    /\ LastKind = "import"
    /\ Contains(LastLine, <<"(">>)
    /\ ~Contains(LastLine, <<")">>)

\* the line scanned last is inside a multi-line import, and closes it or not
LastLineClosesImport ==
    LastKind = "continuation" /\ Contains(TrimSpace(LastLine), <<")">>)

LastLineInsideImport ==
    LastKind = "continuation" /\ ~Contains(TrimSpace(LastLine), <<")">>)

\* entering the multi-line import and accumulating its lines
MultilineImportAccumulates ==
    /\ LastLineOpensImport =>
           /\ scan.inMultilineImport
           /\ scan.importBuffer = TrimSpace(LastLine)
           /\ scan.Imports = Before.Imports
           /\ scan.Symbols = Before.Symbols
    /\ LastLineInsideImport =>
           /\ scan.inMultilineImport
           /\ scan.importBuffer = Before.importBuffer \o <<" ">> \o TrimSpace(LastLine)
           /\ scan = [Before EXCEPT !.lineNum = @ + 1,
                                    !.importBuffer = scan.importBuffer]
    /\ LastLineClosesImport =>
           /\ ~scan.inMultilineImport
           /\ scan.Imports =
                  Append(Before.Imports,
                         TrimSpace(Before.importBuffer \o <<" ">> \o TrimSpace(LastLine)))
           /\ scan.currentClass = Before.currentClass
           /\ scan.pendingDecorators = Before.pendingDecorators

\* C29: an import line that opens a parenthesis without closing it enters the
\* multi-line import, the following non-blank lines are accumulated and not
\* interpreted until one contains ")", and on exit the accumulated text is one
\* entry of the imports and, when the filter admits imports, one symbol of
\* type import
C29_MultilineImportIsOneImport ==
    Scanned =>
        /\ MultilineImportAccumulates
        /\ (LastLineClosesImport /\ Admits(aFilter, "import")) =>
               /\ Len(scan.Symbols) = Len(Before.Symbols) + 1
               /\ LastSymbol.Type = "import"

\* what the loop does keep: the accumulated text is one entry of the imports,
\* and no symbol is appended for it under any filter
MultilineImportRecordedInImportsOnly ==
    Scanned =>
        /\ MultilineImportAccumulates
        /\ LastLineClosesImport => scan.Symbols = Before.Symbols


\* the loop's variables after the same lines when no type filter is given
Unfiltered == ScanUpTo(aLang, "", aLines, scan.lineNum)

\* the symbols of type t among symbols, in their order
OfType(symbols, t) ==
    LET HasType(sym) == sym.Type = t
    IN  SelectSeq(symbols, HasType)

\* C30: for every file and every non-empty type filter t the symbols produced
\* with filter t are the symbols produced with no filter restricted to type
\* t, in the same order, and the scanning state is the same
C30_FilterOnlyRestricts ==
    (apc \in {"scan", "done"} /\ aFilter # "") =>
        /\ scan.Symbols = OfType(Unfiltered.Symbols, aFilter)
        /\ scan = [Unfiltered EXCEPT !.Symbols = scan.Symbols]

\* a file scanned to its end under a filter that keeps some of its symbols
\* and drops others
C30_Witness ==
    /\ apc = "done"
    /\ aFilter # ""
    /\ scan.Symbols # <<>>
    /\ Len(scan.Symbols) < Len(Unfiltered.Symbols)
    /\ \E i \in 1..Len(scan.Symbols) : scan.Symbols[i].Decorators # <<>>


\* the analysis of a readable file whose language has no pattern table has
\* been returned
ReturnedWithoutPatterns == apc = "done" /\ aReadable /\ ~HasPatterns(aLang)

\* C31: for a readable file whose language has no pattern table the analysis
\* has no symbols, no imports, no error, and a line count equal to the number
\* of lines of the file
C31_NoPatternsCountsLines ==
    ReturnedWithoutPatterns =>
        /\ scan.Symbols = <<>>
        /\ scan.Imports = <<>>
        /\ analysis.Error = <<>>
        /\ analysis.LineCount = Len(aLines)

\* what the code does keep: no symbols, no imports, no error, and the line
\* count the analysis was created with, since no line is read
NoPatternsCountsNothing ==
    ReturnedWithoutPatterns =>
        /\ scan.Symbols = <<>>
        /\ scan.Imports = <<>>
        /\ analysis.Error = <<>>
        /\ analysis.LineCount = 0

\* with a pattern table the line count is the number of lines of the file
PatternsCountLines ==
    (apc = "done" /\ aReadable /\ HasPatterns(aLang)) =>
        analysis.LineCount = Len(aLines)


-----------------------------------------------------------------------------
(* Diff engine: the shape of the hunks.                                     *)

\* the line of a hunk is a context line
IsContext(l) == l[1] = " "

\* the number of context lines a sequence of hunk lines begins with
RECURSIVE LeadingContext(_)
LeadingContext(ls) ==
    IF ls # <<>> /\ IsContext(Head(ls)) THEN 1 + LeadingContext(Tail(ls)) ELSE 0

\* the number of context lines a sequence of hunk lines ends with
RECURSIVE TrailingContext(_)
TrailingContext(ls) ==
    IF ls # <<>> /\ IsContext(ls[Len(ls)])
    THEN 1 + TrailingContext(SubSeq(ls, 1, Len(ls) - 1)) ELSE 0

\* the runs of context lines of ls that stand between two changed lines
InnerRuns(ls) ==
    {<<a, b>> \in (1..Len(ls)) \X (1..Len(ls)) :
        /\ 1 < a /\ a <= b /\ b < Len(ls)
        /\ \A k \in a..b : IsContext(ls[k])
        /\ ~IsContext(ls[a - 1])
        /\ ~IsContext(ls[b + 1])}

\* no run of context lines between changed lines is longer than n
InnerRunsAtMost(ls, n) == \A r \in InnerRuns(ls) : r[2] - r[1] + 1 <= n

\* C32: every hunk begins with at most ctx context lines before its first
\* changed line, ends with at most ctx context lines after its last changed
\* line, and has no run of more than 2 * ctx context lines between changed
\* lines
C32_ContextWindow ==
    \A k \in 1..Len(hunks) :
        /\ LeadingContext(hunks[k].Lines) <= ctx
        /\ TrailingContext(hunks[k].Lines) <= ctx
        /\ InnerRunsAtMost(hunks[k].Lines, 2 * ctx)

\* what does hold: the leading context and the inner runs are bounded as
\* claimed; the trailing context is exactly ctx lines when the hunk was left
\* because the inputs realign, and up to 2 * ctx lines for a hunk that runs to
\* the end of both inputs
ContextWindowButLastHunk ==
    \A k \in 1..Len(hunks) :
        /\ LeadingContext(hunks[k].Lines) <= ctx
        /\ InnerRunsAtMost(hunks[k].Lines, 2 * ctx)
        /\ TrailingContext(hunks[k].Lines) <= 2 * ctx
        /\ TrailingContext(hunks[k].Lines) > ctx =>
               /\ k = Len(hunks)
               /\ hunks[k].OldStart + hunks[k].OldCount - 1 = Len(oldLines)


\* the texts of the lines of the hunks hs that carry the tag, in order
RECURSIVE Tagged(_, _)
Tagged(hs, tag) ==
    IF hs = <<>> THEN <<>>
    ELSE LET HasTag(l) == l[1] = tag
             Text(k) == SelectSeq(Head(hs).Lines, HasTag)[k][2]
         IN  [k \in 1..Len(SelectSeq(Head(hs).Lines, HasTag)) |-> Text(k)]
             \o Tagged(Tail(hs), tag)

\* the indices at which old and new differ, for inputs of equal length
DifferAt == {k \in 1..Len(oldLines) : oldLines[k] # newLines[k]}

\* computeDiff has returned for inputs of equal length that differ at exactly
\* one index
OneLineChanged ==
    /\ dpc = "done"
    /\ Len(oldLines) = Len(newLines)
    /\ Cardinality(DifferAt) = 1

\* C33: when old and new have equal length and differ at exactly one index k,
\* the hunks contain exactly one removed line, old[k], and exactly one added
\* line, new[k]; the lines shared by both are context
C33_OneChangeOneRemovedOneAdded ==
    OneLineChanged =>
        LET k == CHOOSE k \in DifferAt : TRUE
        IN  /\ Tagged(hunks, "-") = <<oldLines[k]>>
            /\ Tagged(hunks, "+") = <<newLines[k]>>

\* what does hold: old[k] is the first removed line, new[k] is among the
\* added lines, and as many lines are added as removed: lines after k that
\* both inputs share can be removed and added again; a change of the last
\* line is one removed and one added line
OneChangeRemovedAndAdded ==
    OneLineChanged =>
        LET k == CHOOSE k \in DifferAt : TRUE
            removed == Tagged(hunks, "-")
            added == Tagged(hunks, "+")
        IN  /\ removed # <<>> /\ Head(removed) = oldLines[k]
            /\ added # <<>> /\ \E n \in 1..Len(added) : added[n] = newLines[k]
            /\ Len(removed) = Len(added)
            /\ k = Len(oldLines) => Len(removed) = 1


\* the last old line a hunk covers (1-based; one before its start when the
\* hunk covers no old line)
OldEnd(h) == h.OldStart + h.OldCount - 1

\* the hunks are ordered by old_start and their old ranges are disjoint
HunksOrdered ==
    \A k \in 2..Len(hunks) : hunks[k].OldStart > OldEnd(hunks[k - 1])

\* every hunk has lines
HunksNonEmpty == \A k \in 1..Len(hunks) : hunks[k].Lines # <<>>

\* C34: computeDiff terminates for all inputs and every context >= 0; the
\* hunks it returns are ordered by old_start with pairwise disjoint old
\* ranges, every hunk is non-empty, and identical inputs yield no hunk
C34_TerminatesWithOrderedHunks ==
    /\ <>(dpc = "done")
    /\ [](/\ HunksOrdered
          /\ HunksNonEmpty
          /\ oldLines = newLines => hunks = <<>>)

\* computeDiff has returned two hunks or more of a diff with context
C34_Witness ==
    /\ dpc = "done"
    /\ ctx = 1
    /\ Len(hunks) >= 2
    /\ HunksOrdered


\* C35: for max >= 0, when the scanned files hold M matching lines in total,
\* search returns exactly min(max, M) matches under every interleaving of the
\* workers: the cap stops the collection, and what was gathered before it is
\* returned
C35_ExactlyMinOfCapAndMatches ==
    (pc = "done" /\ engine = "searcher" /\ flags.maxResults >= 0) =>
        /\ Len(result.Matches) = Min(flags.maxResults, Cardinality(AllMatches))
        /\ result.Count = Min(flags.maxResults, Cardinality(AllMatches))
        /\ Cardinality(MatchSet) = Len(result.Matches)

\* the cap of two was reached by the matches of two files while a third
\* matching line was left out
C35_Witness ==
    /\ pc = "done"
    /\ engine = "searcher"
    /\ flags.maxResults = 2
    /\ Cardinality(AllMatches) >= 3
    /\ Len(result.Matches) = 2
    /\ result.Matches[1].File # result.Matches[2].File


-----------------------------------------------------------------------------
(* Claims about the searcher's pool once the cap is reached.                *)

\* the searcher's aggregator has left its loop because the cap was reached
StoppedAtCap ==
    /\ engine = "searcher"
    /\ pc = "done"
    /\ Len(result.Matches) >= flags.maxResults

\* C36: when the searcher's aggregator stops reading because the cap was
\* reached, no worker is blocked forever: a worker that holds a result finds
\* room in the results channel, which has one slot per file, every worker
\* exits once the job channel is drained, and the closing goroutine completes
C36_NoWorkerBlockedAfterCap ==
    /\ [](engine = "searcher" =>
             \A w \in Workers :
                 wpc[w] = "work" => (~resultsClosed /\ Len(resultChan) < ResultsCap))
    /\ StoppedAtCap ~>
           (WorkersExited /\ jobChan = <<>> /\ resultsClosed /\ closer = "done")

\* the aggregator has stopped at the cap while a worker still holds a result
\* to send and another result is queued
C36_Witness ==
    /\ StoppedAtCap
    /\ ~resultsClosed
    /\ resultChan # <<>>
    /\ \E w \in Workers : wpc[w] = "work"


-----------------------------------------------------------------------------
(* Claims about the runner's workers and its mutex.                         *)

\* the workers that are executing a task, and those inside the critical
\* section of lines 159-166
Executing == {w \in RunWorkers : runWpc[w] = "run"}
Writing == {w \in RunWorkers : runWpc[w] = "write"}

\* C37: with worker count W (4 when the given value is 0 or less) at most W
\* tasks are executing at any moment, each by a worker of its own, and the
\* results array and the counters change only in a step of the one worker
\* that holds the mutex
C37_BoundedWorkersAndMutex ==
    /\ [](runPc # "idle" =>
             /\ maxWorkers = (IF workersGiven <= 0 THEN 4 ELSE workersGiven)
             /\ Cardinality(Executing) <= maxWorkers
             /\ \A v, w \in Executing : runIdx[v] = runIdx[w] => v = w
             /\ Cardinality(Writing) <= 1
             /\ \A w \in Writing : mu = w)
    /\ [][runResult' # runResult => (mu \in Writing /\ mu' = 0)]_vars

\* two workers of the default four are executing the two tasks at once while
\* none holds the mutex
C37_Witness ==
    /\ runPc # "idle"
    /\ workersGiven = 0
    /\ Cardinality(Executing) = 2
    /\ mu = 0

\* a worker waits at the mutex while another is inside the critical section
WorkerWaitsAtMutex ==
    /\ Writing # {}
    /\ \E w \in RunWorkers : runWpc[w] = "lock"


-----------------------------------------------------------------------------
(* watchFor: the bounded live mode.                                        *)

\* the event lists that concatenate one result of compareStates for each
\* pair of consecutive snapshots among the first k
RECURSIVE ConsecutiveEvents(_, _)
ConsecutiveEvents(snaps, k) ==
    IF k <= 1 THEN {<<>>}
    ELSE {a \o b : a \in ConsecutiveEvents(snaps, k - 1),
                   b \in compareStates(snaps[k - 1], snaps[k])}

\* watchFor is between two ticks, or has returned
BetweenTicks == Bounded /\ lpc \in {"check", "sleep", "done"}

\* C38: in bounded live mode (-duration above 0) the reference snapshot is
\* the snapshot collected last, and the accumulated events are the
\* concatenation of compareStates over each pair of consecutive snapshots;
\* watchFor returns after at least one re-snapshot, with these events and
\* their number as count, once the deadline has passed, and it does return
C38_WatchForAccumulatesConsecutiveDiffs ==
    /\ [](BetweenTicks =>
            /\ liveState = snapshots[Len(snapshots)]
            /\ allEvents \in ConsecutiveEvents(snapshots, Len(snapshots)))
    /\ []((Bounded /\ lpc = "done") =>
            /\ Len(snapshots) >= 2
            /\ liveResult.Events = allEvents
            /\ liveResult.Count = Len(allEvents)
            /\ clock >= end)
    /\ [][(Bounded /\ lpc = "check" /\ clock >= end) => lpc' = "done"]_vars
    /\ ((Bounded /\ lpc = "start") ~> (lpc = "done"))

\* watchFor returned after two ticks that each saw a change
C38_Witness ==
    /\ Bounded /\ lpc = "done"
    /\ Len(snapshots) = 3
    /\ snapshots[1] # snapshots[2] /\ snapshots[2] # snapshots[3]
    /\ liveResult.Count >= 2

-----------------------------------------------------------------------------
(* watchContinuous: the continuous live mode.                              *)

\* C39: in continuous mode the loop returns only by receiving a signal; with
\* a signal in the channel no tick begins, the next step of the select is the
\* return, which collects no snapshot and emits no event; and after a signal
\* is delivered the loop does return, after at most the tick in progress
C39_ContinuousStopsOnSignalOnly ==
    /\ [][(~Bounded /\ lpc # "done" /\ lpc' = "done") => sig]_vars
    /\ [][(lpc = "select" /\ lpc' = "tick") => ~sig]_vars
    /\ [][(~Bounded /\ sig /\ lpc = "select" /\ lpc' # lpc) =>
            (lpc' = "done" /\ UNCHANGED <<emitted, snapshots, liveState, ticks>>)]_vars
    /\ [][(~Bounded /\ lpc = "done") => UNCHANGED <<emitted, snapshots, liveState>>]_vars
    /\ ((~Bounded /\ sig) ~> (lpc = "done"))

\* the loop emitted events of a tick, and returned on a signal
C39_Witness ==
    /\ ~Bounded /\ lpc = "done"
    /\ ticks >= 1 /\ emitted # <<>>

\* a signal is in the channel while a tick is in progress
SignalDuringTick == ~Bounded /\ sig /\ lpc = "tick"

-----------------------------------------------------------------------------
(* git-analyzer: the mode field of the emitted document.                   *)

\* main has written its output
GitDone == gpc = "done"

\* C40: the one document git-analyzer emits carries in its mode field the
\* requested mode, for each of blame, log, diff, status and branches, whether
\* the git command succeeded or failed
C40_ModeFieldIsRequestedMode ==
    (GitDone /\ gitArgs.mode \in GitModes) =>
        (Len(gitOut) = 1 /\ gitOut[1]["mode"] = gitArgs.mode)

\* one document is emitted; its mode field is empty for the five modes, and
\* is the requested mode for any other
ModeFieldOfUnknownModeOnly ==
    GitDone =>
        /\ Len(gitOut) = 1
        /\ gitOut[1]["mode"] = (IF gitArgs.mode \in GitModes THEN "" ELSE gitArgs.mode)

\* a successful run of a known mode has been emitted
GitSucceeded == GitDone /\ gitArgs.mode \in GitModes /\ gitOut[1]["success"] = "true"


=============================================================================
